---- MODULE Spec2Model ----
(***************************************************************************)
(* Acceptance-criteria pipeline of the Expo iOS development MCP server:    *)
(* markdown extraction (extractor.ts), failure analysis and execution of   *)
(* criterion checks and test flows (checker.ts), and the batch run         *)
(* runAcceptanceChecks.                                                    *)
(*                                                                         *)
(* Strings whose content decides behaviour (executor error messages) are   *)
(* sequences of one-character strings, so that toLowerCase() and           *)
(* includes() are computed and not assumed.                                *)
(***************************************************************************)
EXTENDS Integers, Sequences, FiniteSets, TLC

\* ------------------------------------------------------------------ bounds
MaxMsgWords == 3
MaxLines == 4
MaxSteps == 2
MaxCriteria == 2
MaxRequirements == 3

MaxDescWords == 3

MaxCallers == 2

MaxClock == 4

\* ------------------------------------------------------- string primitives
SeqsUpTo(S, n) == UNION {[1..k -> S] : k \in 0..n}

UpperChars == <<"A","B","C","D","E","F","G","H","I","J","K","L","M","N","O","P","Q","R","S","T","U","V","W","X","Y","Z">>

LowerChars == <<"a","b","c","d","e","f","g","h","i","j","k","l","m","n","o","p","q","r","s","t","u","v","w","x","y","z">>

LowerChar(c) ==
  IF \E k \in 1..26 : UpperChars[k] = c
    THEN LowerChars[CHOOSE k \in 1..26 : UpperChars[k] = c]
    ELSE c

\* String.prototype.toLowerCase
ToLowerCase(s) == [k \in 1..Len(s) |-> LowerChar(s[k])]

\* String.prototype.includes
Includes(s, p) ==
  \E k \in 0..(Len(s) - Len(p)) : SubSeq(s, k + 1, k + Len(p)) = p

\* String.prototype.startsWith
StartsWith(s, p) == Len(p) <= Len(s) /\ SubSeq(s, 1, Len(p)) = p

RECURSIVE JoinWords(_)
JoinWords(ws) ==
  IF ws = <<>> THEN <<>>
  ELSE IF Len(ws) = 1 THEN ws[1]
  ELSE ws[1] \o <<" ">> \o JoinWords(Tail(ws))

RECURSIVE Flatten(_)
Flatten(ss) == IF ss = <<>> THEN <<>> ELSE ss[1] \o Flatten(Tail(ss))

\* ------------------------------------- phrases of the failure classification
\* the phrases analyzeDetoxFailure and analyzeStepFailure look for
Patterns ==
  [cannot_find |->
     <<"c", "a", "n", "n", "o", "t", " ", "f", "i", "n", "d">>,
   element_not_found |->
     <<"e", "l", "e", "m", "e", "n", "t", " ", "n", "o", "t", " ", "f", "o", "u", "n", "d">>,
   no_matching_element |->
     <<"n", "o", " ", "m", "a", "t", "c", "h", "i", "n", "g", " ", "e", "l", "e", "m", "e", "n", "t">>,
   unable_to_find |->
     <<"u", "n", "a", "b", "l", "e", " ", "t", "o", " ", "f", "i", "n", "d">>,
   could_not_find |->
     <<"c", "o", "u", "l", "d", " ", "n", "o", "t", " ", "f", "i", "n", "d">>,
   doesnt_exist |->
     <<"d", "o", "e", "s", "n", "'", "t", " ", "e", "x", "i", "s", "t">>,
   does_not_exist |->
     <<"d", "o", "e", "s", " ", "n", "o", "t", " ", "e", "x", "i", "s", "t">>,
   timeout |->
     <<"t", "i", "m", "e", "o", "u", "t">>,
   timed_out |->
     <<"t", "i", "m", "e", "d", " ", "o", "u", "t">>,
   expect |->
     <<"e", "x", "p", "e", "c", "t">>,
   assertion |->
     <<"a", "s", "s", "e", "r", "t", "i", "o", "n">>,
   expected |->
     <<"e", "x", "p", "e", "c", "t", "e", "d">>]

\* elementNotFoundPatterns of analyzeDetoxFailure, in source order
elementNotFoundPatterns ==
  <<Patterns.cannot_find, Patterns.element_not_found, Patterns.no_matching_element, Patterns.unable_to_find,
    Patterns.could_not_find, Patterns.doesnt_exist, Patterns.does_not_exist>>

\* the three phrases analyzeStepFailure tests
stepNotFoundPatterns == <<Patterns.cannot_find, Patterns.element_not_found, Patterns.no_matching_element>>

\* the message literals of checker.ts, by the result they are written to
Msg ==
  [UnknownFailure |->
     <<"U", "n", "k", "n", "o", "w", "n", " ", "f", "a", "i", "l", "u", "r", "e">>,
   TimeoutPrefix |->
     <<"T", "i", "m", "e", "o", "u", "t", " ", "w", "a", "i", "t", "i", "n", "g", " ", "f", "o", "r", " ", "e", "l", "e", "m", "e", "n", "t", ":", " ">>,
   AssertionPrefix |->
     <<"A", "s", "s", "e", "r", "t", "i", "o", "n", " ", "f", "a", "i", "l", "e", "d", ":", " ">>,
   NotFoundCriterion |->
     <<"E", "l", "e", "m", "e", "n", "t", " ", "n", "o", "t", " ", "f", "o", "u", "n", "d", " ", "-", " ", "m", "i", "s", "s", "i", "n", "g", " ", "t", "e", "s", "t", "I", "D", " ", "o", "r", " ", "a", "c", "c", "e", "s", "s", "i", "b", "i", "l", "i", "t", "y", " ", "l", "a", "b", "e", "l">>,
   NotFoundStep |->
     <<"E", "l", "e", "m", "e", "n", "t", " ", "n", "o", "t", " ", "f", "o", "u", "n", "d", " ", "-", " ", "m", "i", "s", "s", "i", "n", "g", " ", "t", "e", "s", "t", "I", "D">>,
   CheckPassed |->
     <<"C", "h", "e", "c", "k", " ", "p", "a", "s", "s", "e", "d">>,
   StepCompleted |->
     <<"S", "t", "e", "p", " ", "c", "o", "m", "p", "l", "e", "t", "e", "d", " ", "s", "u", "c", "c", "e", "s", "s", "f", "u", "l", "l", "y">>,
   ManualSkipped |->
     <<"M", "a", "n", "u", "a", "l", " ", "c", "h", "e", "c", "k", " ", "s", "k", "i", "p", "p", "e", "d">>,
   NoExecutable |->
     <<"N", "o", " ", "e", "x", "e", "c", "u", "t", "a", "b", "l", "e", " ", "c", "h", "e", "c", "k", " ", "c", "o", "u", "l", "d", " ", "b", "e", " ", "g", "e", "n", "e", "r", "a", "t", "e", "d">>,
   ManualReason |->
     <<"R", "e", "q", "u", "i", "r", "e", "s", " ", "m", "a", "n", "u", "a", "l", " ", "v", "e", "r", "i", "f", "i", "c", "a", "t", "i", "o", "n">>,
   VisualSkip |->
     <<"V", "i", "s", "u", "a", "l", " ", "c", "h", "e", "c", "k", " ", "r", "e", "q", "u", "i", "r", "e", "s", " ", "b", "a", "s", "e", "l", "i", "n", "e", " ", "c", "o", "m", "p", "a", "r", "i", "s", "o", "n", " ", "o", "r", " ", "m", "a", "n", "u", "a", "l", " ", "v", "e", "r", "i", "f", "i", "c", "a", "t", "i", "o", "n">>,
   ColorSkip |->
     <<"C", "o", "l", "o", "r", " ", "c", "h", "e", "c", "k", " ", "r", "e", "q", "u", "i", "r", "e", "s", " ", "m", "a", "n", "u", "a", "l", " ", "v", "e", "r", "i", "f", "i", "c", "a", "t", "i", "o", "n", ".", " ", "T", "a", "r", "g", "e", "t", " ", "c", "o", "l", "o", "r", ":", " ">>,
   CouldNotMap |->
     <<"C", "o", "u", "l", "d", " ", "n", "o", "t", " ", "m", "a", "p", " ", "a", "c", "t", "i", "o", "n", " ", "t", "o", " ", "e", "x", "e", "c", "u", "t", "a", "b", "l", "e", " ", "s", "t", "e", "p">>,
   ScreenshotFailed |->
     <<"S", "c", "r", "e", "e", "n", "s", "h", "o", "t", " ", "c", "a", "p", "t", "u", "r", "e", " ", "f", "a", "i", "l", "e", "d">>]

MsgSessionNotReady ==
  <<"D", "e", "t", "o", "x", " ", "s", "e", "s", "s", "i", "o", "n", " ", "n", "o", "t", " ",
    "r", "e", "a", "d", "y">>

\* ------------------------------------------- words of the executor messages
\* words of the executor messages
Words ==
  [Cannot |->
     <<"C", "a", "n", "n", "o", "t">>,
   find |->
     <<"f", "i", "n", "d">>,
   Timeout |->
     <<"T", "i", "m", "e", "o", "u", "t">>,
   failed |->
     <<"f", "a", "i", "l", "e", "d">>]

Vocabulary ==
  {Words.Cannot, Words.find, <<"e", "l", "e", "m", "e", "n", "t">>, <<"n", "o", "t">>,
   <<"f", "o", "u", "n", "d">>, <<"U", "n", "a", "b", "l", "e">>, <<"t", "o">>,
   Words.Timeout, <<"e", "x", "p", "e", "c", "t", "e", "d">>, Words.failed}

\* error messages the executor may report; <<>> stands for an absent message
Messages == {JoinWords(ws) : ws \in SeqsUpTo(Vocabulary, MaxMsgWords)}


\* ------------------------------------------------------------------- state
VARIABLES
  \* failure-analysis inputs and outputs
  errIn, acrit, detoxOut, stepOut, missingOut, apc,
  \* extractSections: input lines, loop index and locals
  lines, lineIdx, sections, currentSection, currentSubsection, criterionIndex,
  parsedBefore, parsed, ppc,
  \* executeTestFlow: arguments, loop index, locals and returned FlowResult
  flow, flowStop, flowShots, stepIdx, stepResults, flowMissing, completedSteps,
  blocked, blockedReason, flowRet, fpc,
  \* collaborators: the awaited call in flight and the log of resolved calls
  pending, calls,
  \* runAcceptanceChecks: arguments, session readiness, loop indices, locals,
  \* the thrown error and the returned value
  criteria, options, detoxReady, secIdx, critIdx, results, sectionReports,
  flowResults, allMissingRequirements, totals, flowIdx, thrown, runRet, rpc,
  \* executeCriterionCheck called on its own: arguments, returned result, position
  chkCriterion, chkCapture, chkRet, cpc,
  \* the report generated by the acceptance tool handler
  report,
  \* extractCheckConfig and mapCriterionToCheck on their own: what the
  \* description holds, the inferred selector, the mapped check, position
  mapIn, mapSelector, mapCheck, mpc,
  \* classifyCriterionType on its own: argument, returned type, position
  clsDescription, clsType, kpc,
  \* saveReport: the report object passed in, the value returned or the
  \* error thrown, position
  savedReport, saveLocals, written, saveRet, spc,
  \* the lock manager's map for one resource and the withLock calls on it
  locks, now, callers

analyzeVars == <<errIn, acrit, detoxOut, stepOut, missingOut, apc>>

parserVars ==
  <<lines, lineIdx, sections, currentSection, currentSubsection, criterionIndex,
    parsedBefore, parsed, ppc>>

flowVars ==
  <<flow, flowStop, flowShots, stepIdx, stepResults, flowMissing, completedSteps,
    blocked, blockedReason, flowRet, fpc>>

ioVars == <<pending, calls>>

runVars ==
  <<criteria, options, detoxReady, secIdx, critIdx, results, sectionReports,
    flowResults, allMissingRequirements, totals, flowIdx, thrown, runRet, rpc>>

checkVars == <<chkCriterion, chkCapture, chkRet, cpc>>

reportVars == <<report>>

\* the groups below belong to operations checked on their own
mapVars == <<mapIn, mapSelector, mapCheck, mpc>>

classifyVars == <<clsDescription, clsType, kpc>>

saveVars == <<savedReport, saveLocals, written, saveRet, spc>>

lockVars == <<locks, now, callers>>

restVars == <<mapVars, classifyVars, saveVars, lockVars>>

vars == <<analyzeVars, parserVars, flowVars, ioVars, runVars, checkVars, reportVars, restVars>>

\* ------------------------------------------------------- result records
NoEvidence == [defined |-> FALSE, screenshots |-> <<>>]

Evidence(shots) == [defined |-> TRUE, screenshots |-> shots]

CriterionOwner(c) == [owner |-> "criterion", n |-> c.id]

StepOwner(step) == [owner |-> "flow-step", n |-> step.stepNumber]

Result(subject, status, message, evidence, missing) ==
  [subject |-> subject, status |-> status, message |-> message,
   evidence |-> evidence, missingRequirements |-> missing]

NoResult == Result(0, "none", <<>>, NoEvidence, <<>>)

\* result.error?.message || "Unknown failure"
ErrorMessageOf(m) == IF m = <<>> THEN Msg.UnknownFailure ELSE m

\* --------------------------------------------- checker.ts failure analysis
MissingRequirement(type, suggestedValue, criterionId) ==
  [type |-> type, suggestedValue |-> suggestedValue, criterionId |-> criterionId]

\* the identifier inferTestId derives from the description of a criterion or
\* step, which stands here for its description
suggestedTestId(described) ==
  <<"i", "d", "-", IF described.owner = "criterion" THEN "c" ELSE "s", ToString(described.n)>>

\* criterion.config.selector.value
selectorValue(criterion) == <<"v", "-", ToString(criterion.id)>>

\* the alternative suggested for a selector by label as well, as the comment
\* above the test says
generateMissingRequirements_labelToo(criterion, errorMessage) ==
  <<MissingRequirement("testID", suggestedTestId(CriterionOwner(criterion)),
                       CriterionOwner(criterion))>>
  \o (IF criterion.selectorBy \in {"text", "label"}
        THEN <<MissingRequirement("accessibilityLabel", selectorValue(criterion),
                                  CriterionOwner(criterion))>>
        ELSE <<>>)

generateMissingRequirements(criterion, errorMessage) ==
  <<MissingRequirement("testID", suggestedTestId(CriterionOwner(criterion)),
                       CriterionOwner(criterion))>>
  \o (IF criterion.selectorBy = "text"
        THEN <<MissingRequirement("accessibilityLabel", selectorValue(criterion),
                                  CriterionOwner(criterion))>>
        ELSE <<>>)

\* analyzeDetoxFailure with the timeout test moved ahead of the not-found test
analyzeDetoxFailure_timeoutFirst(criterion, message) ==
  LET errorMessage == ErrorMessageOf(message)
      lowerError == ToLowerCase(errorMessage)
      isElementNotFound ==
        \E k \in 1..Len(elementNotFoundPatterns) :
          Includes(lowerError, elementNotFoundPatterns[k])
  IN IF Includes(lowerError, Patterns.timeout) \/ Includes(lowerError, Patterns.timed_out)
       THEN Result(criterion.id, "fail", Msg.TimeoutPrefix \o errorMessage, Evidence(<<>>), <<>>)
     ELSE IF isElementNotFound
       THEN Result(criterion.id, "blocked", Msg.NotFoundCriterion, Evidence(<<>>),
                   generateMissingRequirements(criterion, errorMessage))
     ELSE IF \/ Includes(lowerError, Patterns.expect)
             \/ Includes(lowerError, Patterns.assertion)
             \/ Includes(lowerError, Patterns.expected)
       THEN Result(criterion.id, "fail", Msg.AssertionPrefix \o errorMessage, Evidence(<<>>), <<>>)
     ELSE Result(criterion.id, "fail", errorMessage, Evidence(<<>>), <<>>)

analyzeDetoxFailure(criterion, message) ==
  LET errorMessage == ErrorMessageOf(message)
      lowerError == ToLowerCase(errorMessage)
      isElementNotFound ==
        \E k \in 1..Len(elementNotFoundPatterns) :
          Includes(lowerError, elementNotFoundPatterns[k])
  IN IF isElementNotFound
       THEN Result(criterion.id, "blocked", Msg.NotFoundCriterion, Evidence(<<>>),
                   generateMissingRequirements(criterion, errorMessage))
     ELSE IF Includes(lowerError, Patterns.timeout) \/ Includes(lowerError, Patterns.timed_out)
       THEN Result(criterion.id, "fail", Msg.TimeoutPrefix \o errorMessage, Evidence(<<>>), <<>>)
     ELSE IF \/ Includes(lowerError, Patterns.expect)
             \/ Includes(lowerError, Patterns.assertion)
             \/ Includes(lowerError, Patterns.expected)
       THEN Result(criterion.id, "fail", Msg.AssertionPrefix \o errorMessage, Evidence(<<>>), <<>>)
     ELSE Result(criterion.id, "fail", errorMessage, Evidence(<<>>), <<>>)

analyzeStepFailure(step, message) ==
  LET errorMessage == ErrorMessageOf(message)
      lowerError == ToLowerCase(errorMessage)
      isElementNotFound ==
        \/ Includes(lowerError, Patterns.cannot_find)
        \/ Includes(lowerError, Patterns.element_not_found)
        \/ Includes(lowerError, Patterns.no_matching_element)
  IN IF isElementNotFound
       THEN Result(step.stepNumber, "blocked", Msg.NotFoundStep, Evidence(<<>>),
                   <<MissingRequirement("testID", suggestedTestId(StepOwner(step)), StepOwner(step))>>)
       ELSE Result(step.stepNumber, "fail", errorMessage, Evidence(<<>>), <<>>)

\* ---------------------------------- classifier.ts: classifyCriterionType
\* \w in a lower-cased text
IsWordChar(s, i) ==
  /\ i \in 1..Len(s)
  /\ s[i] \in {LowerChars[k] : k \in 1..26} \cup {"0", "1", "2", "3", "4", "5", "6", "7", "8", "9", "_"}

\* \b between s[i - 1] and s[i]
Boundary(s, i) == IsWordChar(s, i - 1) # IsWordChar(s, i)

\* w occurs in s from position i on
At(s, w, i) == i + Len(w) - 1 <= Len(s) /\ SubSeq(s, i, i + Len(w) - 1) = w

\* \s+ from position e up to, not including, position k
Spaces(s, e, k) == e < k /\ \A m \in e..(k - 1) : s[m] \in {" ", "\t"}

\* the positions just after a match, from position i on, of a word of parts[1],
\* then \s+ and a word of parts[2], and so on
RECURSIVE PhraseEnds(_, _, _)
PhraseEnds(s, i, parts) ==
  LET after == {i + Len(w) : w \in {v \in parts[1] : At(s, v, i)}}
  IN IF Len(parts) = 1 THEN after
     ELSE UNION {PhraseEnds(s, k, Tail(parts)) :
                   k \in {j \in 1..Len(s) : \E e \in after : Spaces(s, e, j)}}

\* /\b(..|..)\s+(..|..)/ and, when closed, with \b at its end as well
HasPhrase(s, parts, closed) ==
  \E i \in 1..Len(s) :
    /\ Boundary(s, i)
    /\ \E e \in PhraseEnds(s, i, parts) : closed => Boundary(s, e)

\* the condition of each rule of classifyCriterionType, by the type the rule
\* returns
ruleMatches(description, rule) ==
  LET lower == ToLowerCase(description)
      n == Len(lower)
      Hex(c) == c \in {"0", "1", "2", "3", "4", "5", "6", "7", "8", "9",
                       "a", "b", "c", "d", "e", "f", "A", "B", "C", "D", "E", "F"}
      \* a word of ws at a word start, then whatever test holds of the position after it
      StartsThen(ws, Then(_)) ==
        \E i \in 1..n : Boundary(lower, i) /\ \E e \in PhraseEnds(lower, i, <<ws>>) : Then(e)
      colour ==
        \/ \E i \in 1..Len(description) :
             /\ description[i] = "#"
             /\ i + 3 <= Len(description)
             /\ \A k \in 1..3 : Hex(description[i + k])
        \/ HasPhrase(lower, <<{<<"c", "o", "l", "o", "r">>,
                                  <<"c", "o", "l", "o", "u", "r">>},
                              {<<"i", "s">>,
                                  <<"s", "h", "o", "u", "l", "d", " ", "b", "e">>}>>, FALSE)
        \/ StartsThen({<<"b", "a", "c", "k", "g", "r", "o", "u", "n", "d">>,
                       <<"t", "e", "x", "t">>, <<"b", "o", "r", "d", "e", "r">>},
                      LAMBDA e : /\ e <= n /\ lower[e] \in {" ", "\t"}
                                 /\ \E j \in (e + 1)..(n - 1) :
                                      lower[j] = "#" /\ Hex(lower[j + 1]))
      interaction ==
        \/ StartsThen({<<"t", "a", "p">>, <<"c", "l", "i", "c", "k">>,
                       <<"p", "r", "e", "s", "s">>, <<"s", "w", "i", "p", "e">>,
                       <<"s", "c", "r", "o", "l", "l">>},
                      LAMBDA e : \E j \in e..n :
                        \E w \in {<<"o", "p", "e", "n">>, <<"c", "l", "o", "s", "e">>,
                                 <<"s", "h", "o", "w">>, <<"h", "i", "d", "e">>,
                                 <<"t", "o", "g", "g", "l", "e">>} :
                          At(lower, w, j))
        \/ HasPhrase(lower, <<{<<"t", "a", "p", "p", "i", "n", "g">>,
                                  <<"c", "l", "i", "c", "k", "i", "n", "g">>,
                                  <<"p", "r", "e", "s", "s", "i", "n", "g">>,
                                  <<"s", "w", "i", "p", "i", "n", "g">>,
                                  <<"s", "c", "r", "o", "l", "l", "i", "n", "g">>}>>, TRUE)
        \/ HasPhrase(lower, <<{<<"i", "s">>},
                              {<<"t", "a", "p", "p", "a", "b", "l", "e">>}>>, TRUE)
        \/ HasPhrase(lower, <<{<<"t", "o", "u", "c", "h">>},
                              {<<"f", "e", "e", "d", "b", "a", "c", "k">>}>>, TRUE)
      modal ==
        /\ HasPhrase(lower, <<{<<"m", "o", "d", "a", "l">>,
                                  <<"d", "r", "a", "w", "e", "r">>,
                                  <<"s", "h", "e", "e", "t">>,
                                  <<"d", "i", "a", "l", "o", "g">>,
                                  <<"o", "v", "e", "r", "l", "a", "y">>}>>, TRUE)
        /\ HasPhrase(lower, <<{<<"o", "p", "e", "n">>, <<"o", "p", "e", "n", "s">>,
                                  <<"c", "l", "o", "s", "e">>,
                                  <<"c", "l", "o", "s", "e", "s">>,
                                  <<"a", "p", "p", "e", "a", "r">>,
                                  <<"a", "p", "p", "e", "a", "r", "s">>,
                                  <<"d", "i", "s", "a", "p", "p", "e", "a", "r">>,
                                  <<"d", "i", "s", "a", "p", "p", "e", "a", "r", "s">>,
                                  <<"s", "l", "i", "d", "e">>,
                                  <<"s", "l", "i", "d", "e", "s">>}>>, TRUE)
      navigation ==
        /\ HasPhrase(lower, <<{<<"n", "a", "v", "i", "g", "a", "t">>,
                                  <<"r", "o", "u", "t", "e">>,
                                  <<"s", "c", "r", "e", "e", "n">>, <<"p", "a", "g", "e">>}>>, TRUE)
        /\ \/ HasPhrase(lower, <<{<<"s", "h", "o", "w">>, <<"s", "h", "o", "w", "s">>,
                                     <<"d", "i", "s", "p", "l", "a", "y">>,
                                     <<"d", "i", "s", "p", "l", "a", "y", "s">>,
                                     <<"o", "p", "e", "n">>, <<"o", "p", "e", "n", "s">>}>>, TRUE)
           \/ HasPhrase(lower, <<{<<"g", "o">>, <<"g", "o", "e", "s">>},
                                 {<<"t", "o">>}>>, TRUE)
      scroll ==
        /\ HasPhrase(lower, <<{<<"s", "c", "r", "o", "l", "l">>,
                                  <<"s", "c", "r", "o", "l", "l", "a", "b", "l", "e">>,
                                  <<"s", "c", "r", "o", "l", "l", "i", "n", "g">>}>>, TRUE)
        /\ HasPhrase(lower, <<{<<"s", "m", "o", "o", "t", "h">>,
                                  <<"h", "o", "r", "i", "z", "o", "n", "t", "a", "l">>,
                                  <<"v", "e", "r", "t", "i", "c", "a", "l">>, <<"i", "s">>}>>, TRUE)
      stateChange ==
        /\ HasPhrase(lower, <<{<<"u", "p", "d", "a", "t", "e">>,
                                  <<"u", "p", "d", "a", "t", "e", "s">>,
                                  <<"c", "h", "a", "n", "g", "e">>,
                                  <<"c", "h", "a", "n", "g", "e", "s">>,
                                  <<"b", "e", "c", "o", "m", "e">>,
                                  <<"b", "e", "c", "o", "m", "e", "s">>,
                                  <<"t", "r", "a", "n", "s", "i", "t", "i", "o", "n">>,
                                  <<"t", "r", "a", "n", "s", "i", "t", "i", "o", "n", "s">>}>>, TRUE)
        /\ HasPhrase(lower, <<{<<"w", "h", "e", "n">>}>>, TRUE)
      text ==
        \/ HasPhrase(lower, <<{<<"t", "e", "x", "t">>},
                              {<<"i", "s">>, <<"s", "a", "y">>, <<"s", "a", "y", "s">>,
                                  <<"r", "e", "a", "d">>, <<"r", "e", "a", "d", "s">>,
                                  <<"d", "i", "s", "p", "l", "a", "y">>,
                                  <<"d", "i", "s", "p", "l", "a", "y", "s">>,
                                  <<"s", "h", "o", "w">>, <<"s", "h", "o", "w", "s">>}>>, TRUE)
        \/ HasPhrase(lower, <<{<<"s", "h", "o", "w">>, <<"s", "h", "o", "w", "s">>},
                              {<<"t", "e", "x", "t">>,
                                  <<"m", "e", "s", "s", "a", "g", "e">>,
                                  <<"l", "a", "b", "e", "l">>}>>, TRUE)
        \/ \E i, j \in 1..n :
             /\ i + 1 < j
             /\ lower[i] = "\"" /\ lower[j] = "\""
             /\ \A m \in (i + 1)..(j - 1) : lower[m] # "\""
             /\ \E k \in 1..n :
                  /\ Spaces(lower, j + 1, k)
                  /\ \E w \in {<<"t", "e", "x", "t">>,
                           <<"i", "s", " ", "d", "i", "s", "p", "l", "a", "y", "e", "d">>,
                           <<"i", "s", " ", "s", "h", "o", "w", "n">>} :
                       At(lower, w, k)
      layout ==
        \/ HasPhrase(lower, <<{<<"l", "a", "y", "o", "u", "t">>,
                                  <<"p", "o", "s", "i", "t", "i", "o", "n", "i", "n", "g">>,
                                  <<"a", "l", "i", "g", "n", "m", "e", "n", "t">>,
                                  <<"s", "p", "a", "c", "i", "n", "g">>,
                                  <<"p", "a", "d", "d", "i", "n", "g">>,
                                  <<"m", "a", "r", "g", "i", "n">>, <<"g", "a", "p">>,
                                  <<"w", "i", "d", "t", "h">>,
                                  <<"h", "e", "i", "g", "h", "t">>}>>, TRUE)
        \/ HasPhrase(lower, <<{<<"l", "e", "f", "t">>, <<"r", "i", "g", "h", "t">>,
                                  <<"t", "o", "p">>, <<"b", "o", "t", "t", "o", "m">>,
                                  <<"c", "e", "n", "t", "e", "r">>,
                                  <<"m", "i", "d", "d", "l", "e">>},
                              {<<"s", "i", "d", "e">>, <<"o", "f">>,
                                  <<"a", "l", "i", "g", "n", "e", "d">>}>>, FALSE)
        \/ HasPhrase(lower, <<{<<"s", "i", "d", "e">>},
                              {<<"b", "y">>},
                              {<<"s", "i", "d", "e">>}>>, TRUE)
        \/ HasPhrase(lower, <<{<<"h", "o", "r", "i", "z", "o", "n", "t", "a", "l">>,
                                  <<"v", "e", "r", "t", "i", "c", "a", "l">>}>>, TRUE)
      visible ==
        \/ HasPhrase(lower, <<{<<"d", "i", "s", "p", "l", "a", "y", "e", "d">>,
                                  <<"v", "i", "s", "i", "b", "l", "e">>,
                                  <<"s", "h", "o", "w", "n">>,
                                  <<"r", "e", "n", "d", "e", "r", "e", "d">>,
                                  <<"a", "p", "p", "e", "a", "r">>,
                                  <<"a", "p", "p", "e", "a", "r", "s">>}>>, TRUE)
        \/ StartsThen({<<"s", "h", "o", "w">>, <<"s", "h", "o", "w", "s">>,
                       <<"d", "i", "s", "p", "l", "a", "y">>,
                       <<"d", "i", "s", "p", "l", "a", "y", "s">>, <<"h", "a", "s">>,
                       <<"c", "o", "n", "t", "a", "i", "n">>,
                       <<"c", "o", "n", "t", "a", "i", "n", "s">>},
                      LAMBDA e : \E k \in 1..n : Spaces(lower, e, k) /\ IsWordChar(lower, k))
        \/ HasPhrase(lower, <<{<<"i", "s">>},
                              {<<"a", "v", "a", "i", "l", "a", "b", "l", "e">>}>>, TRUE)
  IN CASE rule = "element_color" -> colour
       [] rule = "interaction" -> interaction
       [] rule = "modal" -> modal
       [] rule = "navigation" -> navigation
       [] rule = "scroll" -> scroll
       [] rule = "state_change" -> stateChange
       [] rule = "element_text" -> text
       [] rule = "layout" -> layout
       [] rule = "element_visible" -> visible

\* the visibility rule tried first
classifyCriterionType_visibleFirst(description) ==
  IF ruleMatches(description, "element_visible") THEN "element_visible"
  ELSE IF ruleMatches(description, "element_color") THEN "element_color"
  ELSE IF ruleMatches(description, "interaction") THEN "interaction"
  ELSE IF ruleMatches(description, "modal") THEN "modal"
  ELSE IF ruleMatches(description, "navigation") THEN "navigation"
  ELSE IF ruleMatches(description, "scroll") THEN "scroll"
  ELSE IF ruleMatches(description, "state_change") THEN "state_change"
  ELSE IF ruleMatches(description, "element_text") THEN "element_text"
  ELSE IF ruleMatches(description, "layout") THEN "layout"
  ELSE "manual"

\* the rules of classifyCriterionType in the order they are tried
classifyCriterionType(description) ==
  IF ruleMatches(description, "element_color") THEN "element_color"
  ELSE IF ruleMatches(description, "interaction") THEN "interaction"
  ELSE IF ruleMatches(description, "modal") THEN "modal"
  ELSE IF ruleMatches(description, "navigation") THEN "navigation"
  ELSE IF ruleMatches(description, "scroll") THEN "scroll"
  ELSE IF ruleMatches(description, "state_change") THEN "state_change"
  ELSE IF ruleMatches(description, "element_text") THEN "element_text"
  ELSE IF ruleMatches(description, "layout") THEN "layout"
  ELSE IF ruleMatches(description, "element_visible") THEN "element_visible"
  ELSE "manual"


\* --------------------------------------------- classifier.ts: slugify
slugify(text) ==
  LET lower == ToLowerCase(text)
      \* .replace(/[^a-z0-9]+/g, "-").replace(/-+/g, "-")
      dashed == [k \in 1..Len(lower) |-> IF IsWordChar(lower, k) /\ lower[k] # "_"
                                          THEN lower[k] ELSE "-"]
      kept == {k \in 1..Len(dashed) : ~(dashed[k] = "-" /\ k > 1 /\ dashed[k - 1] = "-")}
      collapsed == [j \in 1..Cardinality(kept) |->
                      dashed[CHOOSE k \in kept : Cardinality({m \in kept : m <= k}) = j]]
      \* .replace(/^-|-$/g, "")
      from == IF collapsed # <<>> /\ collapsed[1] = "-" THEN 2 ELSE 1
      to == IF Len(collapsed) >= from /\ collapsed[Len(collapsed)] = "-"
              THEN Len(collapsed) - 1 ELSE Len(collapsed)
      trimmed == SubSeq(collapsed, from, to)
  \* .slice(0, 30)
  IN SubSeq(trimmed, 1, IF Len(trimmed) < 30 THEN Len(trimmed) ELSE 30)

\* ------------------------------------------------ extractor.ts: sections
\* heading names and checkbox descriptions of the documents read
Texts ==
  [Visual |->
     <<"V", "i", "s", "u", "a", "l">>,
   Header |->
     <<"H", "e", "a", "d", "e", "r">>,
   Flow1 |->
     <<"F", "l", "o", "w", " ", "1">>,
   visible |->
     <<"L", "o", "g", "o", " ", "i", "s", " ", "v", "i", "s", "i", "b", "l", "e">>,
   drawer |->
     <<"D", "r", "a", "w", "e", "r", " ", "o", "p", "e", "n", "s">>]

P_flow == <<"f", "l", "o", "w">>

metaSections ==
  <<<<"o", "v", "e", "r", "v", "i", "e", "w">>,
    <<"p", "r", "e", "r", "e", "q", "u", "i", "s", "i", "t", "e", "s">>,
    <<"t", "e", "s", "t", " ", "f", "l", "o", "w", "s">>,
    <<"t", "e", "s", "t", " ", "f", "l", "o", "w", "s", " ", "s", "u", "m", "m", "a", "r", "y">>,
    <<"s", "i", "g", "n", "-", "o", "f", "f">>>>

\* metaSections.some((meta) => normalizedName.includes(meta))
IsMetaSection(sectionName) ==
  LET normalizedName == ToLowerCase(sectionName)
  IN \E k \in 1..Len(metaSections) : Includes(normalizedName, metaSections[k])

\* /^Flow\s+\d+/i.test(subsectionName)
IsFlowHeader(subsectionName) ==
  LET l == ToLowerCase(subsectionName)
  IN /\ StartsWith(l, P_flow)
     /\ \E k \in 1..(Len(l) - 5) :
          /\ \A j \in 5..(4 + k) : l[j] = " "
          /\ l[5 + k] \in {"0", "1", "2", "3", "4", "5", "6", "7", "8", "9"}

\* a line after the three regular expressions of the loop have been tried:
\* "h2" matches /^##\s+(.+)$/, "h3" matches /^###\s+(.+)$/, "checkbox"
\* matches /^-\s*\[(.)\]\s*(.+)$/; "h1" and "other" match none of them
Line(kind, name) == [kind |-> kind, name |-> name]

LineChoices ==
  {Line("h1", <<>>), Line("h2", Texts.Visual), Line("h2", <<"T", "e", "s", "t", " ", "F", "l", "o", "w", "s">>),
   Line("h3", Texts.Header), Line("h3", Texts.Flow1), Line("checkbox", Texts.visible), Line("checkbox", Texts.drawer),
   Line("other", <<>>)}

NoParse == [defined |-> FALSE, sections |-> <<>>]

NullSection == [open |-> FALSE, name |-> <<>>, subsections |-> <<>>, criteria |-> <<>>, lineNumber |-> 0]

NewSection(name, lineNumber) ==
  [open |-> TRUE, name |-> name, subsections |-> <<>>, criteria |-> <<>>, lineNumber |-> lineNumber]

NewSubsection(name, lineNumber) ==
  [name |-> name, criteria |-> <<>>, lineNumber |-> lineNumber]

\* the id without the criterion index in it
criterionId_withoutIndex(sectionName, subsectionName, index) ==
  IF subsectionName # <<>>
    THEN slugify(sectionName) \o <<"-">> \o slugify(subsectionName)
    ELSE slugify(sectionName)

\* `${sectionSlug}-${slugify(currentSubsection.name)}-${criterionIndex}` in a
\* subsection and `${sectionSlug}-${criterionIndex}` outside; <<>> stands for
\* no subsection
criterionId(sectionName, subsectionName, index) ==
  IF subsectionName # <<>>
    THEN slugify(sectionName) \o <<"-">> \o slugify(subsectionName) \o <<"-", ToString(index)>>
    ELSE slugify(sectionName) \o <<"-", ToString(index)>>

\* the criterion of a checkbox line, with classifyTypes at its default
NewCriterion(index, section, subsection, description, lineNumber) ==
  [index |-> index, id |-> criterionId(section, subsection, index), section |-> section,
   subsection |-> subsection, description |-> description,
   type |-> classifyCriterionType(description), lineNumber |-> lineNumber]

\* the H2 branch of the loop body
OnH2(line, lineNumber) ==
  IF IsMetaSection(line.name)
    THEN /\ currentSection' = NullSection
         /\ currentSubsection' = 0
         /\ UNCHANGED <<sections, criterionIndex>>
    ELSE /\ sections' = IF currentSection.open THEN Append(sections, currentSection) ELSE sections
         /\ currentSection' = NewSection(line.name, lineNumber)
         /\ currentSubsection' = 0
         /\ UNCHANGED criterionIndex

\* the H3 branch, taken only while a section is open
OnH3(line, lineNumber) ==
  IF IsFlowHeader(line.name)
    THEN UNCHANGED <<sections, currentSection, currentSubsection, criterionIndex>>
    ELSE /\ currentSection' =
              [currentSection EXCEPT !.subsections = Append(@, NewSubsection(line.name, lineNumber))]
         /\ currentSubsection' = Len(currentSection.subsections) + 1
         /\ UNCHANGED <<sections, criterionIndex>>

\* the checkbox branch, taken only while a section is open
OnCheckbox(line, lineNumber) ==
  LET criterion ==
        NewCriterion(criterionIndex + 1, currentSection.name,
                     IF currentSubsection > 0
                       THEN currentSection.subsections[currentSubsection].name
                       ELSE <<>>,
                     line.name, lineNumber)
  IN /\ criterionIndex' = criterionIndex + 1
     /\ currentSection' =
          IF currentSubsection > 0
            THEN [currentSection EXCEPT
                    !.subsections[currentSubsection].criteria = Append(@, criterion)]
            ELSE [currentSection EXCEPT !.criteria = Append(@, criterion)]
     /\ UNCHANGED <<sections, currentSubsection>>

\* one iteration of the for loop of extractSections
ExtractSectionsLine ==
  /\ ppc = "loop"
  /\ lineIdx <= Len(lines)
  /\ LET line == lines[lineIdx]
     IN IF line.kind = "h2" THEN OnH2(line, lineIdx)
        ELSE IF line.kind = "h3" /\ currentSection.open THEN OnH3(line, lineIdx)
        ELSE IF line.kind = "checkbox" /\ currentSection.open THEN OnCheckbox(line, lineIdx)
        ELSE UNCHANGED <<sections, currentSection, currentSubsection, criterionIndex>>
  /\ lineIdx' = lineIdx + 1
  /\ UNCHANGED <<lines, parsedBefore, parsed, ppc, analyzeVars, checkVars, reportVars, restVars, flowVars, ioVars, runVars>>

\* after the loop: "Don't forget the last section"
ExtractSectionsReturn ==
  /\ ppc = "loop"
  /\ lineIdx > Len(lines)
  /\ sections' = IF currentSection.open THEN Append(sections, currentSection) ELSE sections
  /\ ppc' = "done"
  /\ UNCHANGED <<lines, lineIdx, currentSection, currentSubsection, criterionIndex,
                 parsedBefore, parsed, analyzeVars, checkVars, reportVars, restVars, flowVars, ioVars, runVars>>

\* a module-level counter that goes on from where the last call left it
initialIndex_moduleLevel(left) == left

\* let criterionIndex = 0 at the head of extractSections
initialIndex(left) == 0

\* the same lines parsed a second time: the locals are set up anew
ExtractSectionsAgain ==
  /\ ppc = "done"
  /\ ~parsedBefore.defined
  /\ parsedBefore' = [defined |-> TRUE, sections |-> sections]
  /\ sections' = <<>>
  /\ currentSection' = NullSection
  /\ currentSubsection' = 0
  /\ criterionIndex' = initialIndex(criterionIndex)
  /\ lineIdx' = 1
  /\ ppc' = "loop"
  /\ UNCHANGED <<lines, parsed, analyzeVars, checkVars, reportVars, restVars, flowVars, ioVars, runVars>>

\* -------------------------------------------------- extractTestFlows
\* a line matching /^(\d+)\.\s*(.+)$/: its number and its trimmed text
Numbered(number, text) == [kind |-> "numbered", name |-> text, number |-> number]

\* /^###\s*(Flow\s*\d+[:\s]+.+)$/i on an H3 line, read on the heading's name
IsFlowTitle(name) ==
  LET l == ToLowerCase(name)
      digit(c) == c \in {"0", "1", "2", "3", "4", "5", "6", "7", "8", "9"}
  IN /\ StartsWith(l, P_flow)
     /\ \E s \in 0..Len(l), d \in 1..Len(l) :
          /\ 5 + s + d < Len(l)
          /\ \A j \in 5..(4 + s) : l[j] = " "
          /\ \A j \in (5 + s)..(4 + s + d) : digit(l[j])
          /\ l[5 + s + d] \in {":", " "}

\* the loop of extractTestFlows over the first i lines; currentFlow is <<>>
\* for null and a one-element sequence otherwise
RECURSIVE flowScan(_, _)
flowScan(ls, i) ==
  IF i = 0
    THEN [flows |-> <<>>, inFlowSection |-> FALSE, currentFlow |-> <<>>]
    ELSE
      LET st == flowScan(ls, i - 1)
          line == ls[i]
          testFlows == <<"t", "e", "s", "t", " ", "f", "l", "o", "w", "s">>
      IN IF line.kind = "h2" /\ StartsWith(ToLowerCase(line.name), testFlows)
           THEN [st EXCEPT !.inFlowSection = TRUE]
         ELSE IF /\ st.inFlowSection
                 /\ line.kind = "h2"
                 /\ ~Includes(ToLowerCase(line.name), testFlows)
           THEN [flows |-> st.flows \o st.currentFlow, inFlowSection |-> FALSE,
                 currentFlow |-> <<>>]
         ELSE IF ~st.inFlowSection
           THEN st
         ELSE IF line.kind = "h3" /\ IsFlowTitle(line.name)
           THEN [st EXCEPT !.flows = st.flows \o st.currentFlow,
                           !.currentFlow =
                              <<[name |-> line.name, steps |-> <<>>, lineNumber |-> i]>>]
         ELSE IF line.kind = "numbered" /\ st.currentFlow # <<>>
           THEN [st EXCEPT !.currentFlow[1].steps =
                             Append(@, [stepNumber |-> line.number,
                                        description |-> line.name, lineNumber |-> i])]
         ELSE st

\* the flows pushed in the loop and, after it, the flow still open
extractTestFlows(ls) ==
  LET st == flowScan(ls, Len(ls)) IN st.flows \o st.currentFlow

\* -------------------------------------------------- parseCriteriaContent
\* Array.prototype.reduce with an initial value
RECURSIVE reduce(_, _, _)
reduce(f(_, _), array, initial) ==
  IF array = <<>> THEN initial ELSE reduce(f, Tail(array), f(initial, array[1]))

\* the sections' own criteria only
totalCriteria_sectionsOnly(secs) ==
  reduce(LAMBDA sum, s : sum + Len(s.criteria), secs, 0)

\* sections.reduce((sum, s) => sum + s.criteria.length +
\*   s.subsections.reduce((ss, sub) => ss + sub.criteria.length, 0), 0)
totalCriteria(secs) ==
  reduce(LAMBDA sum, s :
           sum + Len(s.criteria)
               + reduce(LAMBDA ss, sub : ss + Len(sub.criteria), s.subsections, 0),
         secs, 0)

NoParsed == [defined |-> FALSE, sections |-> <<>>, testFlows |-> <<>>, totalCriteria |-> 0]

\* parseCriteriaContent once extractSections has returned: the test flows
\* are extracted, the criteria counted and the record returned
ParseCriteriaContentReturn ==
  /\ ppc = "done"
  /\ ~parsed.defined
  /\ parsed' = [defined |-> TRUE, sections |-> sections,
                testFlows |-> extractTestFlows(lines),
                totalCriteria |-> totalCriteria(sections)]
  /\ UNCHANGED <<lines, lineIdx, sections, currentSection, currentSubsection, criterionIndex,
                 parsedBefore, ppc, analyzeVars, checkVars, reportVars, restVars, flowVars, ioVars,
                 runVars>>

\* ------------------------------------------------------ collaborators
NoCall == [kind |-> "none", owner |-> "none", subject |-> 0, refused |-> FALSE]

\* an awaited call: kind "exec" is runDetoxAction, kind "shot" is takeScreenshot
Call(kind, owner, subject) ==
  [kind |-> kind, owner |-> owner, subject |-> subject, refused |-> FALSE]

\* a call of runDetoxAction, which reads the session state as it is entered
ExecCall(owner, subject, ready) ==
  [Call("exec", owner, subject) EXCEPT !.refused = ~ready]

\* what an awaited call may resolve to: runDetoxAction resolves with
\* success or with {success: false, error: {message}}, or rejects;
\* takeScreenshot resolves with a path or rejects
Success == [kind |-> "success", message |-> <<>>, isError |-> FALSE]

Failure(m) == [kind |-> "failure", message |-> m, isError |-> FALSE]

Throw(m, isError) == [kind |-> "throw", message |-> m, isError |-> isError]

FailureMessages == {JoinWords(<<Words.Cannot, Words.find>>), Words.Timeout}

ExecOutcomes ==
  {Success} \cup {Failure(m) : m \in FailureMessages}
  \cup {Throw(Words.failed, TRUE)}

\* a rejection with a value that is not an Error
OtherThrows == {Throw(<<>>, FALSE)}

ShotOutcomes == {Success, Throw(Words.failed, TRUE)}

\* what a call of runDetoxAction settles to: it throws DETOX_NOT_READY when the
\* session was not ready as it was entered, and else any of the outcomes
runDetoxAction(call, outcomes) ==
  IF call.refused THEN {Throw(MsgSessionNotReady, TRUE)} ELSE outcomes

\* error instanceof Error ? error.message : "Unknown error"
ThrownMessage(o) == IF o.isError THEN o.message ELSE <<"U", "n", "k", "n", "o", "w", "n", " ", "e", "r", "r", "o", "r">>

Resolved(call, o) == [call |-> call, outcome |-> o]

\* ------------------------------------------------- mapper.ts: mapFlowStep
Step(n, action, hasSelector, hasQuoted, hasDuration) ==
  [stepNumber |-> n, action |-> action, hasSelector |-> hasSelector,
   hasQuoted |-> hasQuoted, hasDuration |-> hasDuration]

\* mapFlowStep with a snippet for every type step that has a selector
mapFlowStep_typeWithoutText(step) ==
  [action |-> step.action,
   detoxSnippet |->
     CASE step.action = "tap" -> step.hasSelector
       [] step.action = "type" -> step.hasSelector
       [] step.action = "verify" -> step.hasSelector
       [] step.action = "wait" -> step.hasDuration
       [] step.action = "swipe" -> step.hasSelector
       [] OTHER -> FALSE]

\* whether mapFlowStep produces a detoxSnippet for the step
mapFlowStep(step) ==
  [action |-> step.action,
   detoxSnippet |->
     CASE step.action = "tap" -> step.hasSelector
       [] step.action = "type" -> step.hasSelector /\ step.hasQuoted
       [] step.action = "verify" -> step.hasSelector
       [] step.action = "wait" -> step.hasDuration
       [] step.action = "swipe" -> step.hasSelector
       [] OTHER -> FALSE]

\* ------------------------------------------- checker.ts: executeTestFlow
NoReason == [defined |-> FALSE, step |-> 0, message |-> <<>>]

Reason(step, message) == [defined |-> TRUE, step |-> step.stepNumber, message |-> message]

NoFlow == [name |-> <<>>, steps |-> <<>>]

NoFlowResult ==
  [returned |-> FALSE, success |-> FALSE, completedSteps |-> 0, totalSteps |-> 0,
   stepResults |-> <<>>, blockedReason |-> NoReason, missingRequirements |-> <<>>]

\* stepResults.unshift(result) in place of push
pushStepResult_unshift(rs, r) == <<r>> \o rs

\* stepResults.push(result)
pushStepResult(rs, r) == Append(rs, r)

\* the abort test without the blocked disjunct
abortsAfterFailure_stopOnly(status, stopOnFailure) == stopOnFailure

\* if (stepResult.status === "blocked" || stopOnFailure) ... break
abortsAfterFailure(status, stopOnFailure) == status = "blocked" \/ stopOnFailure

\* success computed with <= in place of ===
flowSuccess_atMost(completed, steps) == completed <= Len(steps)

\* const success = completedSteps === flow.steps.length
flowSuccess(completed, steps) == completed = Len(steps)

\* entry of executeTestFlow: the locals before the loop
EnterTestFlow(f, stop, shots) ==
  /\ flow' = f
  /\ flowStop' = stop
  /\ flowShots' = shots
  /\ stepIdx' = 1
  /\ stepResults' = <<>>
  /\ flowMissing' = <<>>
  /\ completedSteps' = 0
  /\ blocked' = FALSE
  /\ blockedReason' = NoReason
  /\ flowRet' = NoFlowResult
  /\ fpc' = "loop"

\* head of one loop iteration: map the step, skip it or call the executor
TestFlowStep ==
  /\ fpc = "loop"
  /\ stepIdx <= Len(flow.steps)
  /\ LET step == flow.steps[stepIdx]
         mappedStep == mapFlowStep(step)
     IN IF ~mappedStep.detoxSnippet
          THEN /\ stepResults' =
                    pushStepResult(stepResults,
                      Result(stepIdx, "skip", Msg.CouldNotMap, NoEvidence, <<>>))
               /\ IF flowStop
                    THEN /\ blocked' = TRUE
                         /\ blockedReason' = Reason(step, Msg.CouldNotMap)
                         /\ fpc' = "break"
                         /\ UNCHANGED stepIdx
                    ELSE /\ stepIdx' = stepIdx + 1
                         /\ UNCHANGED <<blocked, blockedReason, fpc>>
               /\ UNCHANGED pending
          ELSE /\ pending' = ExecCall("flow-step", stepIdx, detoxReady)
               /\ fpc' = "await_exec"
               /\ UNCHANGED <<stepResults, blocked, blockedReason, stepIdx>>
  /\ UNCHANGED <<flow, flowStop, flowShots, flowMissing, completedSteps, flowRet, calls>>

\* runDetoxAction settles: success, reported failure, or rejection
TestFlowExecResolved(o) ==
  /\ fpc = "await_exec"
  /\ calls' = Append(calls, Resolved(pending, o))
  /\ LET step == flow.steps[stepIdx]
     IN CASE o.kind = "success" ->
               /\ completedSteps' = completedSteps + 1
               /\ IF flowShots
                    THEN /\ pending' = Call("shot", "flow-step", stepIdx)
                         /\ fpc' = "await_shot"
                         /\ UNCHANGED <<stepResults, stepIdx>>
                    ELSE /\ pending' = NoCall
                         /\ stepResults' =
                              pushStepResult(stepResults,
                                Result(stepIdx, "pass", Msg.StepCompleted, NoEvidence, <<>>))
                         /\ stepIdx' = stepIdx + 1
                         /\ fpc' = "loop"
               /\ UNCHANGED <<flowMissing, blocked, blockedReason>>
          [] o.kind = "failure" ->
               LET analysed == analyzeStepFailure(step, o.message)
                   stepResult == [analysed EXCEPT !.subject = stepIdx]
               IN /\ pending' = NoCall
                  /\ stepResults' = pushStepResult(stepResults, stepResult)
                  /\ flowMissing' = flowMissing \o stepResult.missingRequirements
                  /\ IF abortsAfterFailure(stepResult.status, flowStop)
                       THEN /\ blocked' = (stepResult.status = "blocked")
                            /\ blockedReason' = Reason(step, stepResult.message)
                            /\ fpc' = "break"
                            /\ UNCHANGED stepIdx
                       ELSE /\ stepIdx' = stepIdx + 1
                            /\ fpc' = "loop"
                            /\ UNCHANGED <<blocked, blockedReason>>
                  /\ UNCHANGED completedSteps
          [] o.kind = "throw" ->
               /\ pending' = NoCall
               /\ stepResults' =
                    pushStepResult(stepResults,
                      Result(stepIdx, "error", ThrownMessage(o), NoEvidence, <<>>))
               /\ IF flowStop
                    THEN /\ blockedReason' = Reason(step, ThrownMessage(o))
                         /\ fpc' = "break"
                         /\ UNCHANGED stepIdx
                    ELSE /\ stepIdx' = stepIdx + 1
                         /\ fpc' = "loop"
                         /\ UNCHANGED blockedReason
               /\ UNCHANGED <<flowMissing, blocked, completedSteps>>
  /\ UNCHANGED <<flow, flowStop, flowShots, flowRet>>

\* captureStepEvidence settles; a rejected screenshot leaves evidence undefined
TestFlowShotResolved(o) ==
  /\ fpc = "await_shot"
  /\ calls' = Append(calls, Resolved(pending, o))
  /\ pending' = NoCall
  /\ stepResults' =
       pushStepResult(stepResults,
         Result(stepIdx, "pass", Msg.StepCompleted,
                IF o.kind = "success" THEN Evidence(<<stepIdx>>) ELSE NoEvidence, <<>>))
  /\ stepIdx' = stepIdx + 1
  /\ fpc' = "loop"
  /\ UNCHANGED <<flow, flowStop, flowShots, flowMissing, completedSteps, blocked,
                 blockedReason, flowRet>>

\* after the loop: build the FlowResult
TestFlowReturn ==
  /\ \/ fpc = "break"
     \/ fpc = "loop" /\ stepIdx > Len(flow.steps)
  /\ flowRet' =
       [returned |-> TRUE,
        success |-> flowSuccess(completedSteps, flow.steps),
        completedSteps |-> completedSteps,
        totalSteps |-> Len(flow.steps),
        stepResults |-> stepResults,
        blockedReason |-> IF blocked THEN blockedReason ELSE NoReason,
        missingRequirements |-> flowMissing]
  /\ fpc' = "returned"
  /\ UNCHANGED <<flow, flowStop, flowShots, stepIdx, stepResults, flowMissing,
                 completedSteps, blocked, blockedReason, pending, calls>>

\* ------------------------------------- mapper.ts: mapCriterionToCheck
Criterion(id, type, selectorBy, colorHex, expectedText, modalVerb, smooth) ==
  [id |-> id, type |-> type, selectorBy |-> selectorBy, colorHex |-> colorHex,
   expectedText |-> expectedText, modalVerb |-> modalVerb, smooth |-> smooth]

Mapped(type, colorExtraction) ==
  [type |-> type, colorExtraction |-> colorExtraction, manualReason |-> <<>>]

\* a MappedCheck of type manual with its manualReason
Manual(manualReason) ==
  [type |-> "manual", colorExtraction |-> FALSE, manualReason |-> manualReason]

\* the nine check mappers behind the switch of mapCriterionToCheck: the type
\* of the MappedCheck, whether visualConfig.colorExtraction is set, and the
\* manualReason of a check that cannot be automated
mapCriterionToCheck(c) ==
  CASE c.type = "element_visible" ->
         IF c.selectorBy = "none"
           THEN Manual(<<"C", "a", "n", "n", "o", "t", " ", "i", "n", "f", "e", "r", " ",
                         "e", "l", "e", "m", "e", "n", "t", " ", "s", "e", "l", "e", "c",
                         "t", "o", "r", " ", "f", "r", "o", "m", " ", "d", "e", "s", "c",
                         "r", "i", "p", "t", "i", "o", "n">>)
           ELSE Mapped("detox", FALSE)
    [] c.type = "element_text" ->
         IF c.selectorBy = "none" /\ ~c.expectedText
           THEN Manual(<<"C", "a", "n", "n", "o", "t", " ", "i", "n", "f", "e", "r", " ",
                         "e", "l", "e", "m", "e", "n", "t", " ", "s", "e", "l", "e", "c",
                         "t", "o", "r", " ", "o", "r", " ", "e", "x", "p", "e", "c", "t",
                         "e", "d", " ", "t", "e", "x", "t">>)
           ELSE Mapped("detox", FALSE)
    [] c.type = "element_color" ->
         IF ~c.colorHex
           THEN Manual(<<"N", "o", " ", "c", "o", "l", "o", "r", " ", "s", "p", "e", "c",
                         "i", "f", "i", "c", "a", "t", "i", "o", "n", " ", "f", "o", "u",
                         "n", "d">>)
           ELSE Mapped("screenshot_analysis", TRUE)
    [] c.type = "interaction" ->
         IF c.selectorBy = "none"
           THEN Manual(<<"C", "a", "n", "n", "o", "t", " ", "i", "n", "f", "e", "r", " ",
                         "e", "l", "e", "m", "e", "n", "t", " ", "s", "e", "l", "e", "c",
                         "t", "o", "r", " ", "f", "o", "r", " ", "i", "n", "t", "e", "r",
                         "a", "c", "t", "i", "o", "n">>)
           ELSE Mapped("detox", FALSE)
    [] c.type = "modal" ->
         IF c.selectorBy = "none" /\ ~c.modalVerb
           THEN Manual(<<"C", "a", "n", "n", "o", "t", " ", "d", "e", "t", "e", "r", "m",
                         "i", "n", "e", " ", "m", "o", "d", "a", "l", " ", "b", "e", "h",
                         "a", "v", "i", "o", "r", " ", "t", "o", " ", "t", "e", "s", "t">>)
         ELSE IF c.selectorBy # "none" THEN Mapped("detox", FALSE)
         ELSE Manual(<<"M", "o", "d", "a", "l", " ", "b", "e", "h", "a", "v", "i", "o",
                       "r", " ", "r", "e", "q", "u", "i", "r", "e", "s", " ", "s", "p",
                       "e", "c", "i", "f", "i", "c", " ", "e", "l", "e", "m", "e", "n",
                       "t", " ", "s", "e", "l", "e", "c", "t", "o", "r">>)
    [] c.type = "navigation" ->
         IF c.selectorBy # "none" THEN Mapped("detox", FALSE)
         ELSE Manual(<<"N", "a", "v", "i", "g", "a", "t", "i", "o", "n", " ", "c", "h",
                       "e", "c", "k", " ", "r", "e", "q", "u", "i", "r", "e", "s", " ",
                       "s", "c", "r", "e", "e", "n", " ", "i", "d", "e", "n", "t", "i",
                       "f", "i", "e", "r">>)
    [] c.type = "scroll" ->
         IF c.smooth
           THEN Manual(<<"S", "c", "r", "o", "l", "l", " ", "s", "m", "o", "o", "t", "h",
                         "n", "e", "s", "s", " ", "r", "e", "q", "u", "i", "r", "e", "s",
                         " ", "m", "a", "n", "u", "a", "l", " ", "v", "i", "s", "u", "a",
                         "l", " ", "v", "e", "r", "i", "f", "i", "c", "a", "t", "i", "o",
                         "n">>)
         ELSE IF c.selectorBy # "none" THEN Mapped("detox", FALSE)
         ELSE Manual(<<"S", "c", "r", "o", "l", "l", " ", "c", "h", "e", "c", "k", " ",
                       "r", "e", "q", "u", "i", "r", "e", "s", " ", "s", "c", "r", "o",
                       "l", "l", "a", "b", "l", "e", " ", "e", "l", "e", "m", "e", "n",
                       "t", " ", "s", "e", "l", "e", "c", "t", "o", "r">>)
    [] c.type = "state_change" ->
         Manual(<<"S", "t", "a", "t", "e", " ", "c", "h", "a", "n", "g", "e", " ", "v",
                  "e", "r", "i", "f", "i", "c", "a", "t", "i", "o", "n", " ", "r", "e",
                  "q", "u", "i", "r", "e", "s", " ", "m", "u", "l", "t", "i", "-", "s",
                  "t", "e", "p", " ", "f", "l", "o", "w">>)
    [] c.type = "layout" -> Mapped("visual", FALSE)
    \* the default branch: `Criterion type "${type}" requires manual verification`
    [] OTHER ->
         Manual(<<"C", "r", "i", "t", "e", "r", "i", "o", "n", " ", "t", "y", "p", "e", " ", "\"">>
                \o (CASE c.type = "flow_step" -> <<"f", "l", "o", "w", "_", "s", "t", "e", "p">>
                      [] c.type = "prerequisite" -> <<"p", "r", "e", "r", "e", "q", "u", "i", "s", "i", "t", "e">>
                      [] OTHER -> <<"m", "a", "n", "u", "a", "l">>)
                \o <<"\"", " ", "r", "e", "q", "u", "i", "r", "e", "s", " ", "m", "a", "n", "u", "a", "l", " ", "v", "e", "r", "i", "f", "i", "c", "a", "t", "i", "o", "n">>)

\* modal checks given the factor of interaction checks
checkConfidence_modalAsInteraction(c) ==
  IF c.type = "modal" /\ c.selectorBy # "none" THEN (c.selectorConfidence * 9) \div 10
  ELSE IF c.type = "element_color" /\ c.colorHex THEN 600
  ELSE 0

\* the factor added to the selector's confidence
checkConfidence_summed(c) ==
  IF c.type = "interaction" /\ c.selectorBy # "none" THEN c.selectorConfidence + 900 ELSE 0

\* the confidence field of the MappedCheck each mapper returns, in thousandths;
\* c.selectorConfidence is config.selector.confidence
checkConfidence(c) ==
  CASE c.type = "element_visible" ->
         IF c.selectorBy = "none" THEN 0 ELSE c.selectorConfidence
    [] c.type = "element_text" ->
         IF c.selectorBy = "none" /\ ~c.expectedText THEN 0
         ELSE IF c.selectorBy # "none" THEN c.selectorConfidence ELSE 500
    [] c.type = "element_color" -> IF ~c.colorHex THEN 0 ELSE 600
    [] c.type = "interaction" ->
         IF c.selectorBy = "none" THEN 0 ELSE (c.selectorConfidence * 9) \div 10
    [] c.type = "modal" ->
         IF c.selectorBy = "none" /\ ~c.modalVerb THEN 0
         ELSE IF c.selectorBy # "none" THEN (c.selectorConfidence * 8) \div 10
         ELSE 0
    [] c.type = "navigation" ->
         IF c.selectorBy # "none" THEN (c.selectorConfidence * 7) \div 10 ELSE 0
    [] c.type = "scroll" ->
         IF c.smooth THEN 0
         ELSE IF c.selectorBy # "none" THEN (c.selectorConfidence * 6) \div 10
         ELSE 0
    [] c.type = "state_change" -> 0
    [] c.type = "layout" -> 500
    [] OTHER -> 0

\* ------------------------- classifier.ts: inferSelectorFromDescription
\* the regular expressions tried in turn, each with the selector returned on
\* a match; confidence in thousandths
selectorRules ==
  <<[pattern |-> "testID", by |-> "id", confidence |-> 1000],
    [pattern |-> "label", by |-> "label", confidence |-> 950],
    [pattern |-> "quoted", by |-> "text", confidence |-> 700],
    [pattern |-> "buttonText", by |-> "text", confidence |-> 750],
    [pattern |-> "commonButton", by |-> "text", confidence |-> 600],
    [pattern |-> "inputField", by |-> "text", confidence |-> 500],
    [pattern |-> "avatar", by |-> "text", confidence |-> 500],
    [pattern |-> "logo", by |-> "text", confidence |-> 400]>>

\* undefined
NoSelector == [by |-> "none", confidence |-> 0]

\* the selector of the first rule whose expression matches the description;
\* matches is the set of expressions that do
inferSelectorFromDescription(matches) ==
  LET hit == {k \in 1..Len(selectorRules) : selectorRules[k].pattern \in matches}
  IN IF hit = {} THEN NoSelector
     ELSE LET first == CHOOSE k \in hit : \A j \in hit : k <= j
          IN [by |-> selectorRules[first].by, confidence |-> selectorRules[first].confidence]

\* the criterion built from a description: its type, and the config that
\* extractCheckConfig holds for it once the selector is inferred
MapCriterion ==
  Criterion(1, mapIn.type, mapSelector.by, mapIn.colorHex, mapIn.expectedText,
            mapIn.modalVerb, mapIn.smooth)
    @@ [selectorConfidence |-> mapSelector.confidence]

NoCheck == [type |-> "none", confidence |-> 0]

\* extractCheckConfig: the selector is inferred and stored in the config
DoExtractCheckConfig ==
  /\ mpc = "start"
  /\ mapSelector' = inferSelectorFromDescription(mapIn.matches)
  /\ mpc' = "configured"
  /\ UNCHANGED <<mapIn, mapCheck, analyzeVars, parserVars, flowVars, ioVars, runVars,
                 checkVars, reportVars, classifyVars, saveVars, lockVars>>

DoMapCriterionToCheck ==
  /\ mpc = "configured"
  /\ mapCheck' = [type |-> mapCriterionToCheck(MapCriterion).type,
                  confidence |-> checkConfidence(MapCriterion)]
  /\ mpc' = "mapped"
  /\ UNCHANGED <<mapIn, mapSelector, analyzeVars, parserVars, flowVars, ioVars, runVars,
                 checkVars, reportVars, classifyVars, saveVars, lockVars>>

\* --------------------------------- checker.ts: executeCriterionCheck
\* the skip result carrying the fallback text whatever the mapper stored
manualCheckResult_fallbackOnly(criterion, mappedCheck) ==
  Result(criterion.id, "skip", Msg.ManualReason, NoEvidence, <<>>)

\* mappedCheck.manualReason || "Requires manual verification"
manualCheckResult(criterion, mappedCheck) ==
  Result(criterion.id, "skip",
         IF mappedCheck.manualReason = <<>> THEN Msg.ManualReason ELSE mappedCheck.manualReason,
         NoEvidence, <<>>)

\* the catch block reporting the exception as an ordinary failure
detoxCheckCaught_asFailure(criterion, o) ==
  Result(criterion.id, "fail", ThrownMessage(o), NoEvidence, <<>>)

\* the catch block of executeDetoxCheck
detoxCheckCaught(criterion, o) ==
  Result(criterion.id, "error", ThrownMessage(o), NoEvidence, <<>>)

\* the catch block of executeVisualCheck
visualCheckCaught(criterion, o) ==
  Result(criterion.id, "error",
         IF o.isError THEN o.message ELSE Msg.ScreenshotFailed, NoEvidence, <<>>)

\* the colour branch made to honour captureEvidence as the other branch does
visualCheckResult_colourObeysOption(criterion, mappedCheck, captureEvidence) ==
  Result(criterion.id, "skip",
         IF mappedCheck.colorExtraction THEN Msg.ColorSkip ELSE Msg.VisualSkip,
         IF captureEvidence THEN Evidence(<<criterion.id>>) ELSE NoEvidence, <<>>)

\* the result of executeVisualCheck once the screenshot is taken
visualCheckResult(criterion, mappedCheck, captureEvidence) ==
  IF mappedCheck.colorExtraction
    THEN Result(criterion.id, "skip", Msg.ColorSkip, Evidence(<<criterion.id>>), <<>>)
    ELSE Result(criterion.id, "skip", Msg.VisualSkip,
                IF captureEvidence THEN Evidence(<<criterion.id>>) ELSE NoEvidence, <<>>)

\* the pass result of executeDetoxCheck; captureSuccessEvidence swallows a
\* rejected screenshot and returns undefined
detoxCheckPassed(criterion, shot) ==
  Result(criterion.id, "pass", Msg.CheckPassed,
         IF shot.kind = "success" THEN Evidence(<<criterion.id>>) ELSE NoEvidence, <<>>)

\* ----------------------------------- checker.ts: runAcceptanceChecks
NoFilter == [defined |-> FALSE, names |-> <<>>]

Filter(names) == [defined |-> TRUE, names |-> names]

\* filterSections && !filterSections.some((s) =>
\*   section.name.toLowerCase().includes(s.toLowerCase()))
filteredOut(filterSections, section) ==
  /\ filterSections.defined
  /\ ~\E k \in 1..Len(filterSections.names) :
        Includes(ToLowerCase(section.name), ToLowerCase(filterSections.names[k]))

\* the criteria of the subsections placed before the section's direct ones
allCriteria_subsectionsFirst(section) ==
  Flatten([u \in 1..Len(section.subsections) |-> section.subsections[u].criteria])
  \o section.criteria

\* the section's direct criteria only, its subsections forgotten
allCriteria_directOnly(section) == section.criteria

\* [...section.criteria, ...section.subsections.flatMap((sub) => sub.criteria)]
allCriteria(section) ==
  section.criteria
  \o Flatten([u \in 1..Len(section.subsections) |-> section.subsections[u].criteria])

ZeroTotals == [passed |-> 0, failed |-> 0, skipped |-> 0, blocked |-> 0, errors |-> 0]

\* the switch without its case for blocked
countStatus_blockedDropped(t, status) ==
  CASE status = "pass" -> [t EXCEPT !.passed = @ + 1]
    [] status = "fail" -> [t EXCEPT !.failed = @ + 1]
    [] status = "skip" -> [t EXCEPT !.skipped = @ + 1]
    [] status = "error" -> [t EXCEPT !.errors = @ + 1]
    [] OTHER -> t

\* the switch (result.status) that updates the counters
countStatus(t, status) ==
  CASE status = "pass" -> [t EXCEPT !.passed = @ + 1]
    [] status = "fail" -> [t EXCEPT !.failed = @ + 1]
    [] status = "skip" -> [t EXCEPT !.skipped = @ + 1]
    [] status = "blocked" -> [t EXCEPT !.blocked = @ + 1]
    [] status = "error" -> [t EXCEPT !.errors = @ + 1]
    [] OTHER -> t

RECURSIVE tally(_, _)
tally(t, rs) == IF rs = <<>> THEN t ELSE tally(countStatus(t, rs[1].status), Tail(rs))

\* the rate rounded at one decimal and never scaled back by ten
roundedRate_unscaled(part, whole) ==
  IF whole > 0 THEN 10 * ((2000 * part + whole) \div (2 * whole)) ELSE 0

\* Math.round(((part / whole) * 100) * 10) / 10 in tenths of a percent, 0 when
\* whole is not positive
roundedRate(part, whole) ==
  IF whole > 0 THEN (2000 * part + whole) \div (2 * whole) ELSE 0

\* a ReportSummary; passRate and testableRate are held in tenths of a percent
Summary(total, t) ==
  [total |-> total, passed |-> t.passed, failed |-> t.failed, skipped |-> t.skipped,
   blocked |-> t.blocked, errors |-> t.errors,
   passRate |-> roundedRate(t.passed, total - t.skipped),
   testableRate |-> roundedRate(total - t.skipped, total)]

calculateSummary(rs) == Summary(Len(rs), tally(ZeroTotals, rs))

\* ------------------------------------------ reporter.ts: generateReport
\* the loop over sectionReports adding up section.summary
RECURSIVE sumSections(_, _)
sumSections(acc, srs) ==
  IF srs = <<>> THEN acc
  ELSE sumSections([total |-> acc.total + srs[1].summary.total,
                    passed |-> acc.passed + srs[1].summary.passed,
                    failed |-> acc.failed + srs[1].summary.failed,
                    skipped |-> acc.skipped + srs[1].summary.skipped,
                    blocked |-> acc.blocked + srs[1].summary.blocked,
                    errors |-> acc.errors + srs[1].summary.errors], Tail(srs))

\* total++ and the switch on stepResult.status, for the step results of one flow
RECURSIVE countSteps(_, _)
countSteps(acc, rs) ==
  IF rs = <<>> THEN acc
  ELSE countSteps([countStatus(acc, rs[1].status) EXCEPT !.total = @ + 1], Tail(rs))

RECURSIVE countFlows(_, _)
countFlows(acc, frs) ==
  IF frs = <<>> THEN acc ELSE countFlows(countSteps(acc, frs[1].stepResults), Tail(frs))

\* the flow step results left out of the overall summary
calculateOverallSummary_sectionsOnly(sectionReps, flowRes) ==
  LET c == sumSections([total |-> 0] @@ ZeroTotals, sectionReps) IN Summary(c.total, c)

calculateOverallSummary(sectionReps, flowRes) ==
  LET c == countFlows(sumSections([total |-> 0] @@ ZeroTotals, sectionReps), flowRes)
  IN Summary(c.total, c)

\* the characters of a MissingRequirement type
TypeChars(type) ==
  CASE type = "testID" -> <<"t", "e", "s", "t", "I", "D">>
    [] type = "accessibilityLabel" -> <<"a", "c", "c", "e", "s", "s", "i", "b", "i", "l", "i", "t", "y", "L", "a", "b", "e", "l">>
    [] type = "accessibilityHint" -> <<"a", "c", "c", "e", "s", "s", "i", "b", "i", "l", "i", "t", "y", "H", "i", "n", "t">>

\* `${req.type}:${req.suggestedValue}`
requirementKey(req) == TypeChars(req.type) \o <<":">> \o req.suggestedValue

\* the Map after the loop, as the list of its values: a Map keeps the value
\* first set under a key, in the order the keys were set
RECURSIVE seenAfter(_)
seenAfter(requirements) ==
  IF requirements = <<>> THEN <<>>
  ELSE LET seen == seenAfter(SubSeq(requirements, 1, Len(requirements) - 1))
           req == requirements[Len(requirements)]
       IN IF \E k \in 1..Len(seen) : requirementKey(seen[k]) = requirementKey(req)
            THEN seen
            ELSE Append(seen, req)

\* seen.set(key, req) without the test of seen.has(key): the last item with a
\* key replaces the first
RECURSIVE deduplicateMissingRequirements_lastWins(_)
deduplicateMissingRequirements_lastWins(requirements) ==
  IF requirements = <<>> THEN <<>>
  ELSE LET seen == deduplicateMissingRequirements_lastWins(
                     SubSeq(requirements, 1, Len(requirements) - 1))
           req == requirements[Len(requirements)]
       IN IF \E k \in 1..Len(seen) : requirementKey(seen[k]) = requirementKey(req)
            THEN [k \in 1..Len(seen) |->
                    IF requirementKey(seen[k]) = requirementKey(req) THEN req ELSE seen[k]]
            ELSE Append(seen, req)

\* the values returned latest first
deduplicateMissingRequirements_reversed(requirements) ==
  LET seen == seenAfter(requirements)
  IN [k \in 1..Len(seen) |-> seen[Len(seen) + 1 - k]]

\* Array.from(seen.values())
deduplicateMissingRequirements(requirements) == seenAfter(requirements)

generateReport(sectionReps, flowRes, missingRequirements) ==
  [generated |-> TRUE,
   summary |-> calculateOverallSummary(sectionReps, flowRes),
   sections |-> sectionReps,
   flowResults |-> flowRes,
   missingRequirements |-> deduplicateMissingRequirements(missingRequirements)]

\* the inner break with error left out of the test
stopsAfterResult_failOnly(stopOnFailure, status) == stopOnFailure /\ status = "fail"

\* if (stopOnFailure && (result.status === "fail" || result.status === "error")) break
stopsAfterResult(stopOnFailure, status) ==
  stopOnFailure /\ (status = "fail" \/ status = "error")

\* if (stopOnFailure && (totalFailed > 0 || totalErrors > 0)) break
stopsAfterSection(stopOnFailure, t) == stopOnFailure /\ (t.failed > 0 \/ t.errors > 0)

\* a gate that never throws
gateThrows_never(ready) == FALSE

\* if (!stateManager.isDetoxReady()) throw createError("DETOX_NOT_READY", ...)
gateThrows(ready) == ~ready

NoReport ==
  [generated |-> FALSE, summary |-> Summary(0, ZeroTotals), sections |-> <<>>,
   flowResults |-> <<>>, missingRequirements |-> <<>>]

NoRunResult ==
  [returned |-> FALSE, sectionReports |-> <<>>, flowResults |-> <<>>,
   allMissingRequirements |-> <<>>, summary |-> Summary(0, ZeroTotals)]

CurrentSection == criteria.sections[secIdx]

CurrentCriterion == allCriteria(CurrentSection)[critIdx]

\* entry: the prerequisite check and the locals
AcceptanceStart ==
  /\ rpc = "call"
  /\ IF gateThrows(detoxReady)
       THEN /\ thrown' = "DETOX_NOT_READY"
            /\ rpc' = "thrown"
       ELSE /\ rpc' = "sections"
            /\ UNCHANGED thrown
  /\ UNCHANGED <<criteria, options, detoxReady, secIdx, critIdx, results, sectionReports,
                 flowResults, allMissingRequirements, totals, flowIdx, runRet,
                 flowVars, ioVars>>

\* the session owned by the executor stops while the run is suspended at an
\* await, the only points where other code can run
SessionStops ==
  /\ rpc \notin {"call", "thrown", "done", "idle"}
  /\ pending # NoCall
  /\ detoxReady
  /\ detoxReady' = FALSE
  /\ UNCHANGED <<criteria, options, secIdx, critIdx, results, sectionReports, flowResults,
                 allMissingRequirements, totals, flowIdx, thrown, runRet, rpc,
                 flowVars, ioVars>>

\* head of the section loop: leave the loop, skip a filtered section, or open one
AcceptanceNextSection ==
  /\ rpc = "sections"
  /\ IF secIdx > Len(criteria.sections)
       THEN /\ rpc' = "flows"
            /\ UNCHANGED <<secIdx, critIdx, results>>
       ELSE IF filteredOut(options.sections, CurrentSection)
         THEN /\ secIdx' = secIdx + 1
              /\ UNCHANGED <<rpc, critIdx, results>>
         ELSE /\ results' = <<>>
              /\ critIdx' = 1
              /\ rpc' = "criteria"
              /\ UNCHANGED secIdx
  /\ UNCHANGED <<criteria, options, detoxReady, sectionReports, flowResults,
                 allMissingRequirements, totals, flowIdx, thrown, runRet, flowVars, ioVars>>

\* results.push(result) and what follows it in the criterion loop
RecordResult(r) ==
  /\ results' = Append(results, r)
  /\ allMissingRequirements' = allMissingRequirements \o r.missingRequirements
  /\ totals' = countStatus(totals, r.status)
  /\ IF stopsAfterResult(options.stopOnFailure, r.status)
       THEN /\ rpc' = "section_break"
            /\ UNCHANGED critIdx
       ELSE /\ critIdx' = critIdx + 1
            /\ rpc' = "criteria"

\* head of the criterion loop: skip a manual criterion or run executeCriterionCheck
\* up to its first await
AcceptanceNextCriterion ==
  /\ rpc = "criteria"
  /\ critIdx <= Len(allCriteria(CurrentSection))
  /\ LET criterion == CurrentCriterion
         mappedCheck == mapCriterionToCheck(criterion)
     IN IF options.skipManual /\ criterion.type = "manual"
          THEN /\ results' =
                    Append(results, Result(criterion.id, "skip", Msg.ManualSkipped, NoEvidence, <<>>))
               /\ totals' = countStatus(totals, "skip")
               /\ critIdx' = critIdx + 1
               /\ UNCHANGED <<rpc, allMissingRequirements, pending>>
        ELSE IF mappedCheck.type = "manual"
          THEN /\ RecordResult(manualCheckResult(criterion, mappedCheck))
               /\ UNCHANGED pending
        ELSE IF mappedCheck.type \in {"visual", "screenshot_analysis"}
          THEN /\ pending' = Call("shot", "criterion", criterion.id)
               /\ rpc' = "await_visual"
               /\ UNCHANGED <<results, allMissingRequirements, totals, critIdx>>
        ELSE IF mappedCheck.type = "detox"
          THEN /\ pending' = ExecCall("criterion", criterion.id, detoxReady)
               /\ rpc' = "await_exec"
               /\ UNCHANGED <<results, allMissingRequirements, totals, critIdx>>
        ELSE /\ RecordResult(Result(criterion.id, "skip", Msg.NoExecutable, NoEvidence, <<>>))
             /\ UNCHANGED pending
  /\ UNCHANGED <<criteria, options, detoxReady, secIdx, sectionReports, flowResults,
                 flowIdx, thrown, runRet, flowVars, calls>>

\* executeDetoxCheck: runDetoxAction settles
CriterionExecResolved(o) ==
  /\ rpc = "await_exec"
  /\ calls' = Append(calls, Resolved(pending, o))
  /\ CASE o.kind = "success" ->
            /\ pending' = Call("shot", "criterion", CurrentCriterion.id)
            /\ rpc' = "await_evidence"
            /\ UNCHANGED <<results, allMissingRequirements, totals, critIdx>>
       [] o.kind = "failure" ->
            /\ pending' = NoCall
            /\ RecordResult(analyzeDetoxFailure(CurrentCriterion, o.message))
       [] o.kind = "throw" ->
            /\ pending' = NoCall
            /\ RecordResult(detoxCheckCaught(CurrentCriterion, o))
  /\ UNCHANGED <<criteria, options, detoxReady, secIdx, sectionReports, flowResults,
                 flowIdx, thrown, runRet, flowVars>>

\* executeDetoxCheck: the screenshot of captureSuccessEvidence settles
CriterionEvidenceResolved(o) ==
  /\ rpc = "await_evidence"
  /\ calls' = Append(calls, Resolved(pending, o))
  /\ pending' = NoCall
  /\ RecordResult(detoxCheckPassed(CurrentCriterion, o))
  /\ UNCHANGED <<criteria, options, detoxReady, secIdx, sectionReports, flowResults,
                 flowIdx, thrown, runRet, flowVars>>

\* executeVisualCheck: takeScreenshot settles
CriterionVisualResolved(o) ==
  /\ rpc = "await_visual"
  /\ calls' = Append(calls, Resolved(pending, o))
  /\ pending' = NoCall
  /\ IF o.kind = "success"
       THEN RecordResult(visualCheckResult(CurrentCriterion,
                                           mapCriterionToCheck(CurrentCriterion), TRUE))
       ELSE RecordResult(visualCheckCaught(CurrentCriterion, o))
  /\ UNCHANGED <<criteria, options, detoxReady, secIdx, sectionReports, flowResults,
                 flowIdx, thrown, runRet, flowVars>>

\* after the criterion loop: the section report and the outer break
AcceptanceSectionEnd ==
  /\ \/ rpc = "section_break"
     \/ rpc = "criteria" /\ critIdx > Len(allCriteria(CurrentSection))
  /\ sectionReports' =
       Append(sectionReports,
              [section |-> secIdx, results |-> results, summary |-> calculateSummary(results)])
  /\ results' = <<>>
  /\ IF stopsAfterSection(options.stopOnFailure, totals)
       THEN /\ rpc' = "flows"
            /\ UNCHANGED secIdx
       ELSE /\ secIdx' = secIdx + 1
            /\ rpc' = "sections"
  /\ UNCHANGED <<criteria, options, detoxReady, critIdx, flowResults, allMissingRequirements,
                 totals, flowIdx, thrown, runRet, flowVars, ioVars>>

\* the test with stopOnFailure left out
runsFlows_skipOnly(opts) == ~opts.skipFlows

\* if (!skipFlows && !stopOnFailure)
runsFlows(opts) == ~opts.skipFlows /\ ~opts.stopOnFailure

\* for (const flow of criteria.testFlows) executeTestFlow(flow, { screenshotEachStep:
\* true, stopOnFailure: true })
AcceptanceNextFlow ==
  /\ rpc = "flows"
  /\ IF runsFlows(options) /\ flowIdx <= Len(criteria.testFlows)
       THEN /\ EnterTestFlow(criteria.testFlows[flowIdx], TRUE, TRUE)
            /\ rpc' = "in_flow"
       ELSE /\ rpc' = "summary"
            /\ UNCHANGED flowVars
  /\ UNCHANGED <<criteria, options, detoxReady, secIdx, critIdx, results, sectionReports,
                 flowResults, allMissingRequirements, totals, flowIdx, thrown, runRet, ioVars>>

\* executeTestFlow has returned: flowResults.push(flowResult)
AcceptanceFlowReturned ==
  /\ rpc = "in_flow"
  /\ fpc = "returned"
  /\ flowResults' = Append(flowResults, flowRet)
  /\ allMissingRequirements' = allMissingRequirements \o flowRet.missingRequirements
  /\ flowIdx' = flowIdx + 1
  /\ rpc' = "flows"
  /\ fpc' = "idle"
  /\ UNCHANGED <<flow, flowStop, flowShots, stepIdx, stepResults, flowMissing, completedSteps,
                 blocked, blockedReason, flowRet>>
  /\ UNCHANGED <<criteria, options, detoxReady, secIdx, critIdx, results, sectionReports,
                 totals, thrown, runRet, ioVars>>

\* the overall summary and the returned value
AcceptanceReturn ==
  /\ rpc = "summary"
  /\ runRet' =
       [returned |-> TRUE, sectionReports |-> sectionReports, flowResults |-> flowResults,
        allMissingRequirements |-> allMissingRequirements,
        summary |-> Summary(totals.passed + totals.failed + totals.skipped
                            + totals.blocked + totals.errors, totals)]
  /\ rpc' = "done"
  /\ UNCHANGED <<criteria, options, detoxReady, secIdx, critIdx, results, sectionReports,
                 flowResults, allMissingRequirements, totals, flowIdx, thrown,
                 flowVars, ioVars>>

\* the acceptance tool handler hands what runAcceptanceChecks returned to
\* generateReport
HandlerGenerateReport ==
  /\ rpc = "done"
  /\ ~report.generated
  /\ report' = generateReport(runRet.sectionReports, runRet.flowResults,
                              runRet.allMissingRequirements)
  /\ UNCHANGED <<analyzeVars, parserVars, flowVars, ioVars, runVars, checkVars, restVars>>

\* ------------------------------------------- components not in use
AnalyzeIdle ==
  /\ errIn = <<>>
  /\ acrit = [id |-> 0, selectorBy |-> "none"]
  /\ detoxOut = NoResult
  /\ stepOut = NoResult
  /\ missingOut = <<>>
  /\ apc = "idle"

ParserIdle ==
  /\ lines = <<>>
  /\ lineIdx = 0
  /\ sections = <<>>
  /\ currentSection = NullSection
  /\ currentSubsection = 0
  /\ criterionIndex = 0
  /\ parsedBefore = NoParse
  /\ parsed = NoParsed
  /\ ppc = "idle"

FlowIdle ==
  /\ flow = NoFlow
  /\ flowStop = TRUE
  /\ flowShots = TRUE
  /\ stepIdx = 0
  /\ stepResults = <<>>
  /\ flowMissing = <<>>
  /\ completedSteps = 0
  /\ blocked = FALSE
  /\ blockedReason = NoReason
  /\ flowRet = NoFlowResult
  /\ fpc = "idle"

IoIdle ==
  /\ pending = NoCall
  /\ calls = <<>>

CheckIdle ==
  /\ chkCriterion = Criterion(0, "manual", "none", FALSE, FALSE, FALSE, FALSE)
  /\ chkCapture = TRUE
  /\ chkRet = NoResult
  /\ cpc = "idle"

\* ------------------------------------------------ reporter.ts: saveReport
NoPath == [dir |-> "none", name |-> "none", stamp |-> 0, ext |-> "none"]

\* join(reportsDir, `${baseName}-${timestamp}.${ext}`)
ReportFile(baseName, stamp, ext) ==
  [dir |-> "reports", name |-> baseName, stamp |-> stamp, ext |-> ext]

ScreenshotsDir == [dir |-> "screenshots", name |-> "none", stamp |-> 0, ext |-> "none"]

NoSaveLocals == [baseName |-> "none", markdownPath |-> NoPath, jsonPath |-> NoPath]

NoSaved == [settled |-> "none", markdownPath |-> NoPath, jsonPath |-> NoPath]

\* the text generateMarkdownReport builds: it reads the report and pushes
\* onto its own lines array
generateMarkdownReport(r) ==
  [format |-> "markdown", title |-> r.title, timestamp |-> r.timestamp,
   duration |-> r.duration, metadata |-> r.metadata, summary |-> r.summary,
   sections |-> r.sections, flowResults |-> r.flowResults,
   missingRequirements |-> r.missingRequirements]

\* JSON.stringify(report, null, 2)
generateJsonReport(r) == [format |-> "json", report |-> r]

\* the three assignments with one to report.title added
withArtifactPaths_retitled(r, markdownPath, jsonPath, screenshotsDir) ==
  [r EXCEPT !.title = <<>>,
            !.artifacts = [reportPath |-> markdownPath, jsonPath |-> jsonPath,
                           screenshotsDir |-> screenshotsDir]]

\* report.artifacts.reportPath = ...; .jsonPath = ...; .screenshotsDir = ...
withArtifactPaths(r, markdownPath, jsonPath, screenshotsDir) ==
  [r EXCEPT !.artifacts = [reportPath |-> markdownPath, jsonPath |-> jsonPath,
                           screenshotsDir |-> screenshotsDir]]

\* await artifactManager.getSessionDir()
SaveGetSessionDir(o) ==
  /\ spc = "call"
  /\ spc' = IF o = "ok" THEN "ensure_dir" ELSE "rejected"
  /\ saveRet' = IF o = "ok" THEN saveRet ELSE [saveRet EXCEPT !.settled = "rejected"]
  /\ UNCHANGED <<savedReport, saveLocals, written>>

\* if (!existsSync(reportsDir)) await mkdir(...); then the two file names
SaveEnsureDir(exists, o, stamp) ==
  /\ spc = "ensure_dir"
  /\ IF exists \/ o = "ok"
       THEN /\ saveLocals' =
                 [saveLocals EXCEPT
                    !.markdownPath = ReportFile(saveLocals.baseName, stamp, "md"),
                    !.jsonPath = ReportFile(saveLocals.baseName, stamp, "json")]
            /\ spc' = "write_md"
            /\ UNCHANGED saveRet
       ELSE /\ spc' = "rejected"
            /\ saveRet' = [saveRet EXCEPT !.settled = "rejected"]
            /\ UNCHANGED saveLocals
  /\ UNCHANGED <<savedReport, written>>

\* generateMarkdownReport(report); await writeFile(markdownPath, ...)
SaveWriteMarkdown(o) ==
  /\ spc = "write_md"
  /\ IF o = "ok"
       THEN /\ written' = Append(written, [path |-> saveLocals.markdownPath,
                                           content |-> generateMarkdownReport(savedReport)])
            /\ spc' = "write_json"
            /\ UNCHANGED saveRet
       ELSE /\ spc' = "rejected"
            /\ saveRet' = [saveRet EXCEPT !.settled = "rejected"]
            /\ UNCHANGED written
  /\ UNCHANGED <<savedReport, saveLocals>>

\* generateJsonReport(report); await writeFile(jsonPath, ...); the artifact
\* paths; return { markdownPath, jsonPath }
SaveWriteJson(o) ==
  /\ spc = "write_json"
  /\ IF o = "ok"
       THEN /\ written' = Append(written, [path |-> saveLocals.jsonPath,
                                           content |-> generateJsonReport(savedReport)])
            /\ savedReport' = withArtifactPaths(savedReport, saveLocals.markdownPath,
                                                saveLocals.jsonPath, ScreenshotsDir)
            /\ saveRet' = [settled |-> "resolved",
                           markdownPath |-> saveLocals.markdownPath,
                           jsonPath |-> saveLocals.jsonPath]
            /\ spc' = "resolved"
       ELSE /\ spc' = "rejected"
            /\ saveRet' = [saveRet EXCEPT !.settled = "rejected"]
            /\ UNCHANGED <<savedReport, written>>
  /\ UNCHANGED saveLocals

\* ------------------------------------------------------- lock.ts: LockManager
\* the resource of the calls, as in withLock("simulator", "boot", ...)
Resource == "simulator"

\* the delay of the wait loop, setTimeout(resolve, 100)
RetryDelayMs == 100

\* LockInfo; holder names the withLock call whose acquire stored it
LockInfo(operation, holder, acquiredAt, timeoutMs) ==
  [resource |-> Resource, operation |-> operation, holder |-> holder,
   acquiredAt |-> acquiredAt, timeoutMs |-> timeoutMs]

\* the set left by locks.delete(resource) and locks.set(resource, lockInfo)
Deleted(ls, resource) == {l \in ls : l.resource # resource}

\* LockManager.acquire; timeoutMs = 0 stands for an absent timeoutMs, which
\* the test if (existing.timeoutMs) treats alike
acquire(ls, resource, operation, holder, timeoutMs, time) ==
  LET existing == {l \in ls : l.resource = resource}
      expired == \E l \in existing :
                   l.timeoutMs # 0 /\ time - l.acquiredAt > l.timeoutMs
  IN IF existing # {} /\ ~expired
       THEN [acquired |-> FALSE, locks |-> ls]
       ELSE [acquired |-> TRUE,
             locks |-> Deleted(ls, resource) \cup {LockInfo(operation, holder, time, timeoutMs)}]

\* release that leaves the map as it is
release_kept(ls, resource) == ls

\* LockManager.release
release(ls, resource) == Deleted(ls, resource)

\* ------------------------------------------------------------ lock.ts: withLock
NoCaller ==
  [state |-> "idle", operation |-> "none", timeoutMs |-> 0, waitForLock |-> FALSE,
   waitTimeoutMs |-> 0, startTime |-> 0, wakeAt |-> 0]

\* what follows a failed acquire: another round of the wait loop or the throw
AfterRefusal(c, startTime) ==
  IF callers[c].waitForLock /\ now - startTime < callers[c].waitTimeoutMs
    THEN [callers EXCEPT ![c].state = "sleeping", ![c].startTime = startTime,
                         ![c].wakeAt = now + RetryDelayMs]
    ELSE [callers EXCEPT ![c].state = "locked_error"]

\* the call up to its first await: acquire, then fn, the wait loop or the throw
WithLockCall(c) ==
  /\ callers[c].state = "idle"
  /\ LET a == acquire(locks, Resource, callers[c].operation, c, callers[c].timeoutMs, now)
     IN /\ locks' = a.locks
        /\ callers' = IF a.acquired
                        THEN [callers EXCEPT ![c].state = "running"]
                        ELSE AfterRefusal(c, now)
  /\ UNCHANGED now

\* the timer of the wait loop fires: acquire again
WithLockRetry(c) ==
  /\ callers[c].state = "sleeping"
  /\ now >= callers[c].wakeAt
  /\ LET a == acquire(locks, Resource, callers[c].operation, c, callers[c].timeoutMs, now)
     IN /\ locks' = a.locks
        /\ callers' = IF a.acquired
                        THEN [callers EXCEPT ![c].state = "running"]
                        ELSE AfterRefusal(c, callers[c].startTime)
  /\ UNCHANGED now

\* fn settles: the finally block releases, the result or rejection passes on
WithLockFnSettled(c, o) ==
  /\ callers[c].state = "running"
  /\ locks' = release(locks, Resource)
  /\ callers' = [callers EXCEPT ![c].state = o]
  /\ UNCHANGED now

\* time passes
ClockTick ==
  /\ now < MaxClock * RetryDelayMs
  /\ now' = now + RetryDelayMs
  /\ UNCHANGED <<locks, callers>>

ReportIdle == report = NoReport

MapIdle ==
  /\ mapIn = [matches |-> {}, type |-> "manual", colorHex |-> FALSE, expectedText |-> FALSE,
              modalVerb |-> FALSE, smooth |-> FALSE]
  /\ mapSelector = NoSelector
  /\ mapCheck = NoCheck
  /\ mpc = "idle"

ClassifyIdle ==
  /\ clsDescription = <<>>
  /\ clsType = "none"
  /\ kpc = "idle"

SaveIdle ==
  /\ savedReport = NoReport
  /\ saveLocals = NoSaveLocals
  /\ written = <<>>
  /\ saveRet = NoSaved
  /\ spc = "idle"

LockIdle ==
  /\ locks = {}
  /\ now = 0
  /\ callers = <<>>

RestIdle == MapIdle /\ ClassifyIdle /\ SaveIdle /\ LockIdle

RunIdle ==
  /\ criteria = [sections |-> <<>>, testFlows |-> <<>>]
  /\ options = [stopOnFailure |-> FALSE, sections |-> NoFilter, skipFlows |-> FALSE,
                skipManual |-> TRUE]
  /\ secIdx = 0
  /\ critIdx = 0
  /\ results = <<>>
  /\ sectionReports = <<>>
  /\ flowResults = <<>>
  /\ allMissingRequirements = <<>>
  /\ totals = ZeroTotals
  /\ flowIdx = 0
  /\ thrown = "none"
  /\ runRet = NoRunResult
  /\ rpc = "idle"

\* ------------------------------------ specification: extractSections
InitParse ==
  /\ CheckIdle
  /\ ReportIdle
  /\ RestIdle
  /\ lines \in SeqsUpTo(LineChoices, MaxLines)
  /\ lineIdx = 1
  /\ sections = <<>>
  /\ currentSection = NullSection
  /\ currentSubsection = 0
  /\ criterionIndex = 0
  /\ parsedBefore = NoParse
  /\ parsed = NoParsed
  /\ ppc = "loop"
  /\ AnalyzeIdle
  /\ FlowIdle
  /\ IoIdle
  /\ RunIdle
  /\ detoxReady = FALSE

NextParse ==
  ExtractSectionsLine \/ ExtractSectionsReturn \/ ExtractSectionsAgain \/ ParseCriteriaContentReturn

SpecParse == InitParse /\ [][NextParse]_vars

\* --------------------------- specification: a description mapped to a check
CriterionTypes ==
  {"element_visible", "element_text", "element_color", "interaction", "layout", "navigation",
   "modal", "scroll", "state_change", "flow_step", "prerequisite", "manual"}

InitMap ==
  /\ mapIn \in [matches : SUBSET {selectorRules[k].pattern : k \in 1..Len(selectorRules)},
                type : CriterionTypes, colorHex : BOOLEAN, expectedText : BOOLEAN,
                modalVerb : BOOLEAN, smooth : BOOLEAN]
  /\ mapSelector = NoSelector
  /\ mapCheck = NoCheck
  /\ mpc = "start"
  /\ AnalyzeIdle
  /\ ParserIdle
  /\ FlowIdle
  /\ IoIdle
  /\ RunIdle
  /\ detoxReady = FALSE
  /\ CheckIdle
  /\ ReportIdle
  /\ ClassifyIdle
  /\ SaveIdle
  /\ LockIdle

NextMap == DoExtractCheckConfig \/ DoMapCriterionToCheck

SpecMap == InitMap /\ [][NextMap]_vars

\* ------------------------------ specification: one description classified
\* words of criterion descriptions: one or two for each rule of the
\* classifier; several of them match no rule when they stand alone
DescriptionWords ==
  {<<"#", "f", "f", "f">>,
   <<"t", "a", "p", "p", "i", "n", "g">>,
   <<"d", "r", "a", "w", "e", "r">>,
   <<"o", "p", "e", "n", "s">>,
   <<"s", "c", "r", "e", "e", "n">>,
   <<"s", "c", "r", "o", "l", "l">>,
   <<"i", "s">>,
   <<"u", "p", "d", "a", "t", "e", "s">>,
   <<"w", "h", "e", "n">>,
   <<"t", "e", "x", "t">>,
   <<"p", "a", "d", "d", "i", "n", "g">>,
   <<"v", "i", "s", "i", "b", "l", "e">>}

InitClassify ==
  /\ clsDescription \in {JoinWords(ws) : ws \in SeqsUpTo(DescriptionWords, MaxDescWords)}
  /\ clsType = "none"
  /\ kpc = "start"
  /\ AnalyzeIdle
  /\ ParserIdle
  /\ FlowIdle
  /\ IoIdle
  /\ RunIdle
  /\ detoxReady = FALSE
  /\ CheckIdle
  /\ ReportIdle
  /\ MapIdle
  /\ SaveIdle
  /\ LockIdle

DoClassifyCriterionType ==
  /\ kpc = "start"
  /\ clsType' = classifyCriterionType(clsDescription)
  /\ kpc' = "classified"
  /\ UNCHANGED <<clsDescription, analyzeVars, parserVars, flowVars, ioVars, runVars,
                 checkVars, reportVars, mapVars, saveVars, lockVars>>

NextClassify == DoClassifyCriterionType

SpecClassify == InitClassify /\ [][NextClassify]_vars

\* ------------------------------ specification: documents with test flows
\* lines of a document with a Test Flows block: the block's heading, another
\* section heading, the heading of the flows' summary table, a flow header,
\* another H3, a numbered line and a line of no kind
TestFlowLineChoices ==
  {Line("h2", <<"T", "e", "s", "t", " ", "F", "l", "o", "w", "s">>),
   Line("h2", Texts.Visual),
   Line("h2", <<"T", "e", "s", "t", " ", "F", "l", "o", "w", "s", " ",
                "S", "u", "m", "m", "a", "r", "y">>),
   Line("h3", <<"F", "l", "o", "w", " ", "1", ":", " ", "L", "o", "g", "i", "n">>),
   Line("h3", Texts.Header),
   Numbered(1, <<"T", "a", "p", " ", "L", "o", "g", "i", "n">>),
   Line("other", <<>>)}

InitTestFlows ==
  /\ CheckIdle
  /\ ReportIdle
  /\ RestIdle
  /\ lines \in SeqsUpTo(TestFlowLineChoices, MaxLines)
  /\ lineIdx = 1
  /\ sections = <<>>
  /\ currentSection = NullSection
  /\ currentSubsection = 0
  /\ criterionIndex = 0
  /\ parsedBefore = NoParse
  /\ parsed = NoParsed
  /\ ppc = "loop"
  /\ AnalyzeIdle
  /\ FlowIdle
  /\ IoIdle
  /\ RunIdle
  /\ detoxReady = FALSE

SpecTestFlows == InitTestFlows /\ [][NextParse]_vars

\* --------------------------------------- specification: one executeTestFlow
StepChoices(n) ==
  {Step(n, "tap", TRUE, FALSE, FALSE), Step(n, "verify", FALSE, FALSE, FALSE),
   Step(n, "wait", FALSE, FALSE, TRUE), Step(n, "navigate", FALSE, FALSE, FALSE)}

\* flows whose k-th step is numbered k, as extractTestFlows reads "<k>. text"
Flows ==
  {[name |-> Texts.Flow1, steps |-> st] :
     st \in {q \in SeqsUpTo(UNION {StepChoices(n) : n \in 1..MaxSteps}, MaxSteps) :
               \A k \in 1..Len(q) : q[k].stepNumber = k}}

InitFlow ==
  /\ CheckIdle
  /\ ReportIdle
  /\ RestIdle
  /\ flow \in Flows
  /\ flowStop \in BOOLEAN
  /\ flowShots \in BOOLEAN
  /\ stepIdx = 1
  /\ stepResults = <<>>
  /\ flowMissing = <<>>
  /\ completedSteps = 0
  /\ blocked = FALSE
  /\ blockedReason = NoReason
  /\ flowRet = NoFlowResult
  /\ fpc = "loop"
  /\ IoIdle
  /\ AnalyzeIdle
  /\ ParserIdle
  /\ RunIdle
  /\ detoxReady \in BOOLEAN

NextFlow ==
  \/ TestFlowStep /\ UNCHANGED <<analyzeVars, parserVars, checkVars, reportVars, restVars, runVars>>
  \/ \E o \in runDetoxAction(pending, ExecOutcomes \cup OtherThrows) : TestFlowExecResolved(o) /\ UNCHANGED <<analyzeVars, parserVars, checkVars, reportVars, restVars, runVars>>
  \/ \E o \in ShotOutcomes : TestFlowShotResolved(o) /\ UNCHANGED <<analyzeVars, parserVars, checkVars, reportVars, restVars, runVars>>
  \/ TestFlowReturn /\ UNCHANGED <<analyzeVars, parserVars, checkVars, reportVars, restVars, runVars>>

SpecFlow == InitFlow /\ [][NextFlow]_vars

\* ----------------------- specification: executeTestFlow on unmapped steps
\* the step kinds parseStepAction and the selector inference can hand to
\* mapFlowStep: one that maps, and every way of yielding no detoxSnippet
UnmappedStepChoices(n) ==
  {Step(n, "tap", TRUE, FALSE, FALSE),
   Step(n, "navigate", TRUE, FALSE, FALSE), Step(n, "login", FALSE, FALSE, FALSE),
   Step(n, "observe", FALSE, FALSE, FALSE), Step(n, "undefined", TRUE, TRUE, TRUE),
   Step(n, "tap", FALSE, FALSE, FALSE), Step(n, "verify", FALSE, FALSE, FALSE),
   Step(n, "swipe", FALSE, FALSE, FALSE), Step(n, "type", FALSE, TRUE, FALSE),
   Step(n, "type", TRUE, FALSE, FALSE), Step(n, "wait", FALSE, FALSE, FALSE)}

InitFlowSkip ==
  /\ CheckIdle
  /\ ReportIdle
  /\ RestIdle
  /\ flow \in {[name |-> Texts.Flow1, steps |-> st] :
       st \in {q \in SeqsUpTo(UNION {UnmappedStepChoices(n) : n \in 1..MaxSteps}, MaxSteps) :
                 \A k \in 1..Len(q) : q[k].stepNumber = k}}
  /\ flowStop \in BOOLEAN
  /\ flowShots \in BOOLEAN
  /\ stepIdx = 1
  /\ stepResults = <<>>
  /\ flowMissing = <<>>
  /\ completedSteps = 0
  /\ blocked = FALSE
  /\ blockedReason = NoReason
  /\ flowRet = NoFlowResult
  /\ fpc = "loop"
  /\ IoIdle
  /\ AnalyzeIdle
  /\ ParserIdle
  /\ RunIdle
  /\ detoxReady \in BOOLEAN

SpecFlowSkip == InitFlowSkip /\ [][NextFlow]_vars

\* ------------------------------- specification: one runAcceptanceChecks
SectionName(s) == IF s % 2 = 1 THEN Texts.Visual ELSE <<"L", "a", "y", "o", "u", "t">>

CriterionKinds == {"element_visible", "manual", "layout"}

\* criterion k of the document, as the parser classified it
CriterionOfKind(k, kind) ==
  CASE kind = "element_visible" -> Criterion(k, kind, "text", FALSE, FALSE, FALSE, FALSE)
    [] OTHER -> Criterion(k, kind, "none", FALSE, FALSE, FALSE, FALSE)

\* how the criteria of a document are laid out: all directly in one section,
\* the last one in a subsection of that section, or one section per criterion
DocLayouts == {"one-section", "with-subsection", "section-each"}

PlaceOf(layout, n, k) ==
  CASE layout = "one-section" -> <<1, 0>>
    [] layout = "with-subsection" -> IF k < n THEN <<1, 0>> ELSE <<1, 1>>
    [] layout = "section-each" -> <<k, 0>>

NumSections(layout, n) == IF layout = "section-each" THEN n ELSE 1

SubsUsed(n, place, s) ==
  LET us == {place[k][2] : k \in {j \in 1..n : place[j][1] = s}}
  IN IF us = {} THEN 0 ELSE CHOOSE u \in us : \A v \in us : v <= u

CriteriaAt(n, kinds, place, p) ==
  LET ids == SelectSeq([k \in 1..n |-> k], LAMBDA k : place[k] = p)
  IN [j \in 1..Len(ids) |-> CriterionOfKind(ids[j], kinds[ids[j]])]

\* the sections of a document whose n criteria are numbered in document order
SectionsOf(ns, n, kinds, place) ==
  [s \in 1..ns |->
    [name |-> SectionName(s),
     criteria |-> CriteriaAt(n, kinds, place, <<s, 0>>),
     subsections |->
       [u \in 1..SubsUsed(n, place, s) |->
          [name |-> Texts.Header, criteria |-> CriteriaAt(n, kinds, place, <<s, u>>)]]]]

SectionLists ==
  UNION {{SectionsOf(NumSections(layout, Len(kinds)), Len(kinds), kinds,
                     [k \in 1..Len(kinds) |-> PlaceOf(layout, Len(kinds), k)]) :
            kinds \in SeqsUpTo(CriterionKinds, MaxCriteria)} :
         layout \in DocLayouts}

\* the test flows of a document: none, one flow whose second step has no
\* mapping, or a flow whose only step has no mapping followed by a one-step flow
FlowLists ==
  {<<>>,
   <<[name |-> Texts.Flow1,
      steps |-> <<Step(1, "tap", TRUE, FALSE, FALSE), Step(2, "navigate", FALSE, FALSE, FALSE)>>]>>,
   <<[name |-> Texts.Flow1, steps |-> <<Step(1, "navigate", FALSE, FALSE, FALSE)>>],
     [name |-> <<"F", "l", "o", "w", " ", "2">>, steps |-> <<Step(1, "tap", TRUE, FALSE, FALSE)>>]>>}

OptionChoices ==
  [stopOnFailure : BOOLEAN, sections : {NoFilter, Filter(<<<<"V", "I", "S">>>>)},
   skipFlows : BOOLEAN, skipManual : BOOLEAN]

InitRun ==
  /\ CheckIdle
  /\ ReportIdle
  /\ RestIdle
  /\ criteria \in [sections : SectionLists, testFlows : FlowLists]
  /\ options \in OptionChoices
  /\ detoxReady \in BOOLEAN
  /\ secIdx = 1
  /\ critIdx = 1
  /\ results = <<>>
  /\ sectionReports = <<>>
  /\ flowResults = <<>>
  /\ allMissingRequirements = <<>>
  /\ totals = ZeroTotals
  /\ flowIdx = 1
  /\ thrown = "none"
  /\ runRet = NoRunResult
  /\ rpc = "call"
  /\ FlowIdle
  /\ IoIdle
  /\ AnalyzeIdle
  /\ ParserIdle

NextRun ==
  \/ AcceptanceStart /\ UNCHANGED <<analyzeVars, parserVars, checkVars, reportVars, restVars>>
  \/ SessionStops /\ UNCHANGED <<analyzeVars, parserVars, checkVars, reportVars, restVars>>
  \/ AcceptanceNextSection /\ UNCHANGED <<analyzeVars, parserVars, checkVars, reportVars, restVars>>
  \/ AcceptanceNextCriterion /\ UNCHANGED <<analyzeVars, parserVars, checkVars, reportVars, restVars>>
  \/ \E o \in runDetoxAction(pending, ExecOutcomes) : CriterionExecResolved(o) /\ UNCHANGED <<analyzeVars, parserVars, checkVars, reportVars, restVars>>
  \/ \E o \in ShotOutcomes : CriterionEvidenceResolved(o) /\ UNCHANGED <<analyzeVars, parserVars, checkVars, reportVars, restVars>>
  \/ \E o \in ShotOutcomes : CriterionVisualResolved(o) /\ UNCHANGED <<analyzeVars, parserVars, checkVars, reportVars, restVars>>
  \/ AcceptanceSectionEnd /\ UNCHANGED <<analyzeVars, parserVars, checkVars, reportVars, restVars>>
  \/ AcceptanceNextFlow /\ UNCHANGED <<analyzeVars, parserVars, checkVars, reportVars, restVars>>
  \/ TestFlowStep /\ UNCHANGED <<analyzeVars, parserVars, checkVars, reportVars, restVars, runVars>>
  \/ \E o \in runDetoxAction(pending, ExecOutcomes) : TestFlowExecResolved(o) /\ UNCHANGED <<analyzeVars, parserVars, checkVars, reportVars, restVars, runVars>>
  \/ \E o \in ShotOutcomes : TestFlowShotResolved(o) /\ UNCHANGED <<analyzeVars, parserVars, checkVars, reportVars, restVars, runVars>>
  \/ TestFlowReturn /\ UNCHANGED <<analyzeVars, parserVars, checkVars, reportVars, restVars, runVars>>
  \/ AcceptanceFlowReturned /\ UNCHANGED <<analyzeVars, parserVars, checkVars, reportVars, restVars>>
  \/ AcceptanceReturn /\ UNCHANGED <<analyzeVars, parserVars, checkVars, reportVars, restVars>>
  \/ HandlerGenerateReport

SpecRun == InitRun /\ [][NextRun]_vars

\* ----------------------------------- specification: failure classification
\* config.selector?.by, "none" when the criterion has no selector
SelectorKinds == {"none", "id", "text", "label"}

AnalyzeCriteria ==
  {[id |-> 1, selectorBy |-> by] : by \in SelectorKinds}

AnalyzeStepInput == [stepNumber |-> 1]

InitAnalyze ==
  /\ CheckIdle
  /\ ReportIdle
  /\ RestIdle
  /\ errIn \in Messages
  /\ acrit \in AnalyzeCriteria
  /\ detoxOut = NoResult
  /\ stepOut = NoResult
  /\ missingOut = <<>>
  /\ apc = "input"
  /\ ParserIdle
  /\ FlowIdle
  /\ IoIdle
  /\ RunIdle
  /\ detoxReady = FALSE

DoAnalyzeDetoxFailure ==
  /\ apc = "input"
  /\ detoxOut' = analyzeDetoxFailure(acrit, errIn)
  /\ apc' = "criterion"
  /\ UNCHANGED <<errIn, acrit, missingOut, stepOut, parserVars, checkVars, reportVars, restVars, flowVars, ioVars, runVars>>

DoAnalyzeStepFailure ==
  /\ apc = "criterion"
  /\ stepOut' = analyzeStepFailure(AnalyzeStepInput, errIn)
  /\ apc' = "done"
  /\ UNCHANGED <<errIn, acrit, missingOut, detoxOut, parserVars, checkVars, reportVars, restVars, flowVars, ioVars, runVars>>

DoGenerateMissingRequirements ==
  /\ apc = "done"
  /\ missingOut' = generateMissingRequirements(acrit, ErrorMessageOf(errIn))
  /\ apc' = "generated"
  /\ UNCHANGED <<errIn, acrit, detoxOut, stepOut, parserVars, checkVars, reportVars, restVars, flowVars, ioVars, runVars>>

NextAnalyze ==
  DoAnalyzeDetoxFailure \/ DoAnalyzeStepFailure \/ DoGenerateMissingRequirements

SpecAnalyze == InitAnalyze /\ [][NextAnalyze]_vars

\* ------------------------- specification: executeCriterionCheck on its own
CheckedTypes ==
  {"element_visible", "element_text", "element_color", "interaction", "layout",
   "navigation", "modal", "scroll", "state_change", "manual"}

\* the criteria handed to executeCriterionCheck
CheckCriteria ==
  {Criterion(1, type, by, colorHex, FALSE, modalVerb, smooth) :
     type \in CheckedTypes, by \in SelectorKinds, colorHex \in BOOLEAN,
     modalVerb \in BOOLEAN, smooth \in BOOLEAN}

\* executeCriterionCheck up to its return or its first await
CheckStart ==
  /\ cpc = "call"
  /\ LET mappedCheck == mapCriterionToCheck(chkCriterion)
     IN IF mappedCheck.type = "manual"
          THEN /\ chkRet' = manualCheckResult(chkCriterion, mappedCheck)
               /\ cpc' = "returned"
               /\ UNCHANGED pending
        ELSE IF mappedCheck.type \in {"visual", "screenshot_analysis"}
          THEN /\ pending' = Call("shot", "criterion", chkCriterion.id)
               /\ cpc' = "await_visual"
               /\ UNCHANGED chkRet
        ELSE IF mappedCheck.type = "detox"
          THEN /\ pending' = ExecCall("criterion", chkCriterion.id, detoxReady)
               /\ cpc' = "await_exec"
               /\ UNCHANGED chkRet
        ELSE /\ chkRet' = Result(chkCriterion.id, "skip", Msg.NoExecutable, NoEvidence, <<>>)
             /\ cpc' = "returned"
             /\ UNCHANGED pending
  /\ UNCHANGED <<chkCriterion, chkCapture, calls, detoxReady>>

\* executeDetoxCheck: runDetoxAction settles
CheckExecResolved(o) ==
  /\ cpc = "await_exec"
  /\ calls' = Append(calls, Resolved(pending, o))
  /\ CASE o.kind = "success" ->
            IF chkCapture
              THEN /\ pending' = Call("shot", "criterion", chkCriterion.id)
                   /\ cpc' = "await_evidence"
                   /\ UNCHANGED chkRet
              ELSE /\ pending' = NoCall
                   /\ chkRet' = Result(chkCriterion.id, "pass", Msg.CheckPassed, NoEvidence, <<>>)
                   /\ cpc' = "returned"
       [] o.kind = "failure" ->
            /\ pending' = NoCall
            /\ chkRet' = analyzeDetoxFailure(chkCriterion, o.message)
            /\ cpc' = "returned"
       [] o.kind = "throw" ->
            /\ pending' = NoCall
            /\ chkRet' = detoxCheckCaught(chkCriterion, o)
            /\ cpc' = "returned"
  /\ UNCHANGED <<chkCriterion, chkCapture, detoxReady>>

\* executeDetoxCheck: the screenshot of captureSuccessEvidence settles
CheckEvidenceResolved(o) ==
  /\ cpc = "await_evidence"
  /\ calls' = Append(calls, Resolved(pending, o))
  /\ pending' = NoCall
  /\ chkRet' = detoxCheckPassed(chkCriterion, o)
  /\ cpc' = "returned"
  /\ UNCHANGED <<chkCriterion, chkCapture, detoxReady>>

\* executeVisualCheck: takeScreenshot settles
CheckVisualResolved(o) ==
  /\ cpc = "await_visual"
  /\ calls' = Append(calls, Resolved(pending, o))
  /\ pending' = NoCall
  /\ chkRet' = IF o.kind = "success"
                 THEN visualCheckResult(chkCriterion, mapCriterionToCheck(chkCriterion),
                                        chkCapture)
                 ELSE visualCheckCaught(chkCriterion, o)
  /\ cpc' = "returned"
  /\ UNCHANGED <<chkCriterion, chkCapture, detoxReady>>

InitCheck ==
  /\ chkCriterion \in CheckCriteria
  /\ chkCapture \in BOOLEAN
  /\ detoxReady \in BOOLEAN
  /\ chkRet = NoResult
  /\ cpc = "call"
  /\ pending = NoCall
  /\ calls = <<>>
  /\ AnalyzeIdle
  /\ ParserIdle
  /\ FlowIdle
  /\ ReportIdle
  /\ RestIdle
  /\ RunIdle

CheckRest ==
  <<analyzeVars, parserVars, flowVars, reportVars, restVars, criteria, options, secIdx, critIdx,
    results, sectionReports, flowResults, allMissingRequirements, totals, flowIdx,
    thrown, runRet, rpc>>

NextCheck ==
  \/ CheckStart /\ UNCHANGED CheckRest
  \/ \E o \in runDetoxAction(pending, ExecOutcomes) : CheckExecResolved(o) /\ UNCHANGED CheckRest
  \/ \E o \in ShotOutcomes : CheckEvidenceResolved(o) /\ UNCHANGED CheckRest
  \/ \E o \in ShotOutcomes : CheckVisualResolved(o) /\ UNCHANGED CheckRest

SpecCheck == InitCheck /\ [][NextCheck]_vars

\* ----------------------------- specification: generateReport on its own
RequirementTypes == {"testID", "accessibilityLabel", "accessibilityHint"}

SuggestedValues == {<<"a">>, <<"a", ":", "b">>}

\* the lists of missing requirements handed to generateReport; the item at
\* position k comes from criterion k
RequirementLists ==
  UNION {{[k \in 1..n |-> MissingRequirement(types[k], values[k], k)] :
            types \in [1..n -> RequirementTypes], values \in [1..n -> SuggestedValues]} :
         n \in 0..MaxRequirements}

InitReport ==
  /\ runRet \in {[NoRunResult EXCEPT !.returned = TRUE, !.allMissingRequirements = reqs] :
                   reqs \in RequirementLists}
  /\ rpc = "done"
  /\ report = NoReport
  /\ criteria = [sections |-> <<>>, testFlows |-> <<>>]
  /\ options = [stopOnFailure |-> FALSE, sections |-> NoFilter, skipFlows |-> FALSE,
                skipManual |-> TRUE]
  /\ detoxReady = TRUE
  /\ secIdx = 1
  /\ critIdx = 1
  /\ results = <<>>
  /\ sectionReports = <<>>
  /\ flowResults = <<>>
  /\ allMissingRequirements = runRet.allMissingRequirements
  /\ totals = ZeroTotals
  /\ flowIdx = 1
  /\ thrown = "none"
  /\ AnalyzeIdle
  /\ ParserIdle
  /\ FlowIdle
  /\ IoIdle
  /\ CheckIdle
  /\ RestIdle

NextReport == HandlerGenerateReport

SpecReport == InitReport /\ [][NextReport]_vars

\* --------------------------------------------- specification: one saveReport
AwaitOutcomes == {"ok", "throw"}

\* new Date() at the two moments a report can be saved
SaveStamps == {1, 2}

\* the reports generateReport returns, and the same after an earlier save
SavedReportChoices ==
  {generateReport(secs, flows, reqs) @@
     [title |-> title, timestamp |-> 0, duration |-> duration, artifacts |-> arts,
      metadata |-> meta] :
     secs \in {<<>>,
               <<[section |-> 1,
                  results |-> <<Result(1, "pass", Msg.CheckPassed, NoEvidence, <<>>)>>,
                  summary |->
                    calculateSummary(<<Result(1, "pass", Msg.CheckPassed, NoEvidence, <<>>)>>)]>>},
     flows \in {<<>>, <<[NoFlowResult EXCEPT !.returned = TRUE, !.success = TRUE]>>},
     reqs \in {q \in RequirementLists : Len(q) <= MaxRequirements - 2},
     title \in {Texts.Visual, <<>>},
     duration \in {0, 1500},
     arts \in {[reportPath |-> NoPath, jsonPath |-> NoPath, screenshotsDir |-> NoPath],
               [reportPath |-> ReportFile("acceptance-report", 0, "md"),
                jsonPath |-> ReportFile("acceptance-report", 0, "json"),
                screenshotsDir |-> ScreenshotsDir]},
     meta \in {[deviceName |-> "none", configuration |-> "none"],
               [deviceName |-> "iPhone", configuration |-> "ios.sim.debug"]}}

InitSave ==
  /\ AnalyzeIdle
  /\ ParserIdle
  /\ FlowIdle
  /\ IoIdle
  /\ RunIdle
  /\ detoxReady = FALSE
  /\ CheckIdle
  /\ ReportIdle
  /\ MapIdle
  /\ ClassifyIdle
  /\ LockIdle
  /\ savedReport \in SavedReportChoices
  /\ saveLocals \in {[NoSaveLocals EXCEPT !.baseName = b] : b \in {"acceptance-report", "nightly"}}
  /\ written = <<>>
  /\ saveRet = NoSaved
  /\ spc = "call"

NextSave ==
  \/ \E o \in AwaitOutcomes : SaveGetSessionDir(o) /\ UNCHANGED <<analyzeVars, parserVars, flowVars, ioVars, runVars, checkVars, reportVars, mapVars, classifyVars, lockVars>>
  \/ \E exists \in BOOLEAN, o \in AwaitOutcomes, stamp \in SaveStamps : SaveEnsureDir(exists, o, stamp) /\ UNCHANGED <<analyzeVars, parserVars, flowVars, ioVars, runVars, checkVars, reportVars, mapVars, classifyVars, lockVars>>
  \/ \E o \in AwaitOutcomes : SaveWriteMarkdown(o) /\ UNCHANGED <<analyzeVars, parserVars, flowVars, ioVars, runVars, checkVars, reportVars, mapVars, classifyVars, lockVars>>
  \/ \E o \in AwaitOutcomes : SaveWriteJson(o) /\ UNCHANGED <<analyzeVars, parserVars, flowVars, ioVars, runVars, checkVars, reportVars, mapVars, classifyVars, lockVars>>

SpecSave == InitSave /\ [][NextSave]_vars

\* ------------------------------- specification: withLock calls on one resource
\* the options of a call: timeoutMs absent (0) or given, waitForLock, waitTimeoutMs
LockOptions ==
  [timeoutMs : {0, RetryDelayMs}, waitForLock : BOOLEAN, waitTimeoutMs : {2 * RetryDelayMs}]

InitLock ==
  /\ AnalyzeIdle
  /\ ParserIdle
  /\ FlowIdle
  /\ IoIdle
  /\ RunIdle
  /\ detoxReady = FALSE
  /\ CheckIdle
  /\ ReportIdle
  /\ MapIdle
  /\ ClassifyIdle
  /\ SaveIdle
  /\ locks = {}
  /\ now = 0
  /\ callers \in {[c \in 1..MaxCallers |->
                     [NoCaller EXCEPT !.operation = "boot", !.timeoutMs = opts[c].timeoutMs,
                                      !.waitForLock = opts[c].waitForLock,
                                      !.waitTimeoutMs = opts[c].waitTimeoutMs]] :
                   opts \in [1..MaxCallers -> LockOptions]}

NextLock ==
  \/ \E c \in 1..MaxCallers : WithLockCall(c) /\ UNCHANGED <<analyzeVars, parserVars, flowVars, ioVars, runVars, checkVars, reportVars, mapVars, classifyVars, saveVars>>
  \/ \E c \in 1..MaxCallers : WithLockRetry(c) /\ UNCHANGED <<analyzeVars, parserVars, flowVars, ioVars, runVars, checkVars, reportVars, mapVars, classifyVars, saveVars>>
  \/ \E c \in 1..MaxCallers, o \in {"resolved", "rejected"} : WithLockFnSettled(c, o) /\ UNCHANGED <<analyzeVars, parserVars, flowVars, ioVars, runVars, checkVars, reportVars, mapVars, classifyVars, saveVars>>
  \/ ClockTick /\ UNCHANGED <<analyzeVars, parserVars, flowVars, ioVars, runVars, checkVars, reportVars, mapVars, classifyVars, saveVars>>

SpecLock == InitLock /\ [][NextLock]_vars

\* ====================================================================== claims

\* the H2 line that owns line i: the last H2 before it, 0 if there is none
OwningH2(ls, i) ==
  LET hs == {j \in 1..(i - 1) : ls[j].kind = "h2"}
  IN IF hs = {} THEN 0 ELSE CHOOSE j \in hs : \A k \in hs : k <= j

\* the subsection open at line i inside the section opened at line h
OwningH3(ls, h, i) ==
  LET hs == {j \in (h + 1)..(i - 1) : ls[j].kind = "h3" /\ ~IsFlowHeader(ls[j].name)}
  IN IF hs = {} THEN 0 ELSE CHOOSE j \in hs : \A k \in hs : k <= j

CheckboxUnderOpenSection(ls, i) ==
  /\ ls[i].kind = "checkbox"
  /\ OwningH2(ls, i) > 0
  /\ ~IsMetaSection(ls[OwningH2(ls, i)].name)

\* what the claim expects: one (section line, subsection line, line) triple
\* per checkbox line read while a non-reserved H2 section is open
ExpectedCriteria(ls) ==
  LET idx == SelectSeq([k \in 1..Len(ls) |-> k], LAMBDA i : CheckboxUnderOpenSection(ls, i))
  IN [k \in 1..Len(idx) |->
        <<OwningH2(ls, idx[k]), OwningH3(ls, OwningH2(ls, idx[k]), idx[k]), idx[k]>>]

\* what the parser returned, section by section
ReturnedCriteria(secs) ==
  Flatten([s \in 1..Len(secs) |->
    [k \in 1..Len(secs[s].criteria) |->
       <<secs[s].lineNumber, 0, secs[s].criteria[k].lineNumber>>]
    \o Flatten([u \in 1..Len(secs[s].subsections) |->
         [k \in 1..Len(secs[s].subsections[u].criteria) |->
            <<secs[s].lineNumber, secs[s].subsections[u].lineNumber,
              secs[s].subsections[u].criteria[k].lineNumber>>]])])

\* C1: the criteria returned by the parser are exactly the checkbox lines read
\* while a non-reserved H2 section is open, one criterion per line, in document
\* order, attached to the open subsection if any and else to the section,
\* whatever headings follow that section.
C1_CriteriaAreCheckboxesUnderOpenSections ==
  ppc = "done" => ReturnedCriteria(sections) = ExpectedCriteria(lines)

ExecCalls == SelectSeq(calls, LAMBDA e : e.call.kind = "exec" /\ e.call.owner = "flow-step")

C3_State ==
  /\ Len(stepResults) <= Len(flow.steps)
  /\ \A k \in 1..Len(stepResults) : stepResults[k].subject = k
  /\ \A i, j \in 1..Len(ExecCalls) :
       i < j => ExecCalls[i].call.subject < ExecCalls[j].call.subject
  /\ (pending.kind = "exec" /\ pending.owner = "flow-step") =>
       /\ pending.subject = Len(stepResults) + 1
       /\ \A i \in 1..Len(ExecCalls) : ExecCalls[i].call.subject < pending.subject

C3_NothingAfterAbort ==
  fpc \in {"break", "returned"} =>
    (stepResults' = stepResults /\ calls' = calls /\ pending' = pending)

\* C3: executeTestFlow handles steps in strictly increasing document order,
\* each at most once and only after the previous step's executor call has
\* resolved; stepResults is a prefix of flow.steps in the same order; once the
\* loop has aborted no later step reaches the executor or stepResults.
C3_StepsInOrderPrefixNoneAfterAbort ==
  /\ []C3_State
  /\ [][C3_NothingAfterAbort]_vars

\* step 1 reached the executor and aborted the loop; step 2 was never attempted
C3_Witness ==
  /\ fpc = "returned"
  /\ Len(flow.steps) = 2
  /\ Len(flowRet.stepResults) = 1
  /\ Len(ExecCalls) = 1

C4_FailureStep ==
  /\ fpc = "await_exec"
  /\ Len(stepResults') = Len(stepResults) + 1
  /\ stepResults'[Len(stepResults')].status \in {"fail", "blocked"}

C4_AbortRule ==
  /\ (fpc' = "break") <=>
       (stepResults'[Len(stepResults')].status = "blocked" \/ flowStop)
  /\ fpc' # "break" => (fpc' = "loop" /\ stepIdx' = stepIdx + 1)

\* C4: after a mapped step whose executor call reports failure, the loop aborts
\* if and only if the analysed status is blocked or stopOnFailure is set;
\* otherwise the next step is attempted.
C4_AbortIffBlockedOrStop == [][C4_FailureStep => C4_AbortRule]_vars

\* with stopOnFailure = false a blocked first step ended a two-step flow
C4_Witness ==
  /\ fpc = "returned"
  /\ ~flowStop
  /\ Len(flow.steps) = 2
  /\ Len(flowRet.stepResults) = 1
  /\ flowRet.stepResults[1].status = "blocked"

\* C5: totalSteps is the number of steps, completedSteps the number of pass
\* results, and success holds exactly when completedSteps = totalSteps, which
\* is exactly when every step of the flow has a pass result.
C5_SuccessIffEveryStepPassed ==
  fpc = "returned" =>
    /\ flowRet.totalSteps = Len(flow.steps)
    /\ flowRet.completedSteps =
         Cardinality({k \in 1..Len(flowRet.stepResults) :
                        flowRet.stepResults[k].status = "pass"})
    /\ flowRet.success <=> (flowRet.completedSteps = flowRet.totalSteps)
    /\ flowRet.success <=>
         \A k \in 1..Len(flow.steps) :
           \E j \in 1..Len(flowRet.stepResults) :
             /\ flowRet.stepResults[j].subject = k
             /\ flowRet.stepResults[j].status = "pass"

\* every step was attempted, one of them was skipped, and the flow is not successful
C5_Witness ==
  /\ fpc = "returned"
  /\ Len(flow.steps) = 2
  /\ Len(flowRet.stepResults) = 2
  /\ \E k \in 1..2 : flowRet.stepResults[k].status = "skip"
  /\ \E k \in 1..2 : flowRet.stepResults[k].status = "pass"
  /\ ~flowRet.success

\* C7: a flow-step failure is classified blocked exactly when the criterion
\* classification of the same executor message is blocked, and fail otherwise.
C7_StepClassificationMatchesCriterion ==
  apc = "done" =>
    /\ stepOut.status \in {"blocked", "fail"}
    /\ (stepOut.status = "blocked") <=> (detoxOut.status = "blocked")

C8_NotFound(lower) ==
  \/ Includes(lower, Patterns.cannot_find) \/ Includes(lower, Patterns.element_not_found)
  \/ Includes(lower, Patterns.no_matching_element) \/ Includes(lower, Patterns.unable_to_find)
  \/ Includes(lower, Patterns.could_not_find) \/ Includes(lower, Patterns.doesnt_exist)
  \/ Includes(lower, Patterns.does_not_exist)

C8_Timeout(lower) == Includes(lower, Patterns.timeout) \/ Includes(lower, Patterns.timed_out)

C8_Assertion(lower) ==
  Includes(lower, Patterns.expect) \/ Includes(lower, Patterns.assertion) \/ Includes(lower, Patterns.expected)

\* C8: analyzeDetoxFailure gives every executor failure exactly one outcome by
\* first match: a not-found phrase gives blocked with missing requirements;
\* else a timeout phrase gives fail prefixed "Timeout waiting for element";
\* else an assertion phrase gives fail prefixed "Assertion failed"; else fail
\* with the raw message. It never gives pass, skip or error.
C8_FirstMatchClassification ==
  apc \in {"criterion", "done"} =>
    LET raw == ErrorMessageOf(errIn)
        lower == ToLowerCase(raw)
    IN /\ detoxOut.status \in {"blocked", "fail"}
       /\ C8_NotFound(lower) =>
            /\ detoxOut.status = "blocked"
            /\ Len(detoxOut.missingRequirements) >= 1
       /\ (~C8_NotFound(lower) /\ C8_Timeout(lower)) =>
            /\ detoxOut.status = "fail"
            /\ detoxOut.message = Msg.TimeoutPrefix \o raw
       /\ (~C8_NotFound(lower) /\ ~C8_Timeout(lower) /\ C8_Assertion(lower)) =>
            /\ detoxOut.status = "fail"
            /\ detoxOut.message = Msg.AssertionPrefix \o raw
       /\ (~C8_NotFound(lower) /\ ~C8_Timeout(lower) /\ ~C8_Assertion(lower)) =>
            /\ detoxOut.status = "fail"
            /\ detoxOut.message = raw

\* a message with both a not-found phrase and a timeout phrase was classified blocked
C8_Witness ==
  /\ apc = "done"
  /\ C8_NotFound(ToLowerCase(errIn))
  /\ C8_Timeout(ToLowerCase(errIn))
  /\ detoxOut.status = "blocked"


\* ----------------------------------------------- claims on runAcceptanceChecks
Statuses == {"pass", "fail", "skip", "blocked", "error"}

IsPrefix(a, b) == Len(a) <= Len(b) /\ \A k \in 1..Len(a) : a[k] = b[k]

\* the ids of the criteria of a section, direct ones first, in document order
SectionCriterionIds(section) ==
  [k \in 1..Len(section.criteria) |-> section.criteria[k].id]
  \o Flatten([u \in 1..Len(section.subsections) |->
       [k \in 1..Len(section.subsections[u].criteria) |->
          section.subsections[u].criteria[k].id]])

DocCriterionIds ==
  Flatten([s \in 1..Len(criteria.sections) |-> SectionCriterionIds(criteria.sections[s])])

\* the ids of the criteria of the sections the filter lets through
SelectedCriterionIds ==
  Flatten([s \in 1..Len(criteria.sections) |->
    IF filteredOut(options.sections, criteria.sections[s])
      THEN <<>> ELSE SectionCriterionIds(criteria.sections[s])])

\* the CriterionResults of the returned report, section by section
ReportedResults ==
  Flatten([i \in 1..Len(runRet.sectionReports) |-> runRet.sectionReports[i].results])

\* the CriterionResults recorded so far, reported or still in the open section
RecordedResults ==
  Flatten([i \in 1..Len(sectionReports) |-> sectionReports[i].results]) \o results

ResultCount(rs, id) == Cardinality({k \in 1..Len(rs) : rs[k].subject = id})

StepResultCount(f, k) ==
  IF f > Len(runRet.flowResults) THEN 0
  ELSE ResultCount(runRet.flowResults[f].stepResults, k)

\* C2 as stated: once runAcceptanceChecks has returned, whatever the options,
\* every criterion of the document has exactly one CriterionResult and every
\* step of every test flow exactly one FlowStepResult, each with one status
\* from {pass, fail, skip, blocked, error}.
C2_EveryCriterionAndStepExactlyOnce ==
  rpc = "done" =>
    /\ \A k \in 1..Len(DocCriterionIds) : ResultCount(ReportedResults, DocCriterionIds[k]) = 1
    /\ \A k \in 1..Len(ReportedResults) : ReportedResults[k].status \in Statuses
    /\ \A f \in 1..Len(criteria.testFlows) :
         \A k \in 1..Len(criteria.testFlows[f].steps) : StepResultCount(f, k) = 1
    /\ \A f \in 1..Len(runRet.flowResults) :
         \A k \in 1..Len(runRet.flowResults[f].stepResults) :
           runRet.flowResults[f].stepResults[k].status \in Statuses

\* the results of one flow cover its steps in order up to the first one that
\* did not pass
C2_FlowCovered(f) ==
  LET rs == runRet.flowResults[f].stepResults
      steps == criteria.testFlows[f].steps
  IN /\ Len(rs) <= Len(steps)
     /\ \A k \in 1..Len(rs) : rs[k].subject = k /\ rs[k].status \in Statuses
     /\ \A k \in 1..(Len(rs) - 1) : rs[k].status = "pass"
     /\ Len(rs) < Len(steps) => (Len(rs) > 0 /\ rs[Len(rs)].status # "pass")

\* C2 amended: once runAcceptanceChecks has returned, the CriterionResults are,
\* in document order, a prefix of the criteria of the sections the filter lets
\* through, one result per criterion with one status from {pass, fail, skip,
\* blocked, error}: all of them with stopOnFailure = false, and with
\* stopOnFailure = true all of them up to and including the first fail or
\* error. Flows run only when skipFlows and stopOnFailure are both false, and
\* then each flow has one FlowStepResult per step, in order, up to and
\* including its first step that did not pass.
C2_ResultsCoverSelectedCriteriaOnce ==
  rpc = "done" =>
    LET ids == [k \in 1..Len(ReportedResults) |-> ReportedResults[k].subject]
        n == Len(ids)
    IN /\ IsPrefix(ids, SelectedCriterionIds)
       /\ \A k \in 1..n : ReportedResults[k].status \in Statuses
       /\ ~options.stopOnFailure => ids = SelectedCriterionIds
       /\ options.stopOnFailure =>
            /\ \A k \in 1..(n - 1) : ReportedResults[k].status \notin {"fail", "error"}
            /\ n < Len(SelectedCriterionIds) =>
                 (n > 0 /\ ReportedResults[n].status \in {"fail", "error"})
       /\ IF options.skipFlows \/ options.stopOnFailure
            THEN runRet.flowResults = <<>>
            ELSE /\ Len(runRet.flowResults) = Len(criteria.testFlows)
                 /\ \A f \in 1..Len(criteria.testFlows) : C2_FlowCovered(f)

\* with stopOnFailure = false and no filter, a criterion held in a subsection
\* and the one before it both have their result in the returned report
C2_Witness ==
  /\ rpc = "done"
  /\ ~options.stopOnFailure
  /\ ~options.sections.defined
  /\ Len(criteria.sections) = 1
  /\ Len(criteria.sections[1].subsections) = 1
  /\ Len(criteria.sections[1].criteria) = 1
  /\ Len(ReportedResults) = 2
  /\ ReportedResults[1].status = "blocked"
  /\ ReportedResults[2].status = "pass"

\* no criterion after one whose recorded status is in halting has a result
\* or a collaborator call
NothingAfterFirst(halting) ==
  \A k \in 1..Len(RecordedResults) :
    RecordedResults[k].status \in halting =>
      /\ \A j \in 1..Len(RecordedResults) :
           RecordedResults[j].subject <= RecordedResults[k].subject
      /\ \A j \in 1..Len(calls) :
           calls[j].call.owner = "criterion" =>
             calls[j].call.subject <= RecordedResults[k].subject
      /\ pending.owner = "criterion" => pending.subject <= RecordedResults[k].subject

\* C6 as stated: with stopOnFailure = true no criterion after the first one
\* whose status is fail, error or blocked is executed, in that section or in
\* any later one.
C6_HaltsAfterFailErrorOrBlocked ==
  options.stopOnFailure => NothingAfterFirst({"fail", "error", "blocked"})

\* C6 amended: with stopOnFailure = true no criterion after the first one whose
\* status is fail or error is executed, in that section or in any later one; a
\* blocked result does not halt the run.
C6_HaltsAfterFailOrError ==
  options.stopOnFailure => NothingAfterFirst({"fail", "error"})

\* the run stopped on an error in the first of two sections; the criterion of
\* the second section was never executed
C6_Witness ==
  /\ rpc = "done"
  /\ options.stopOnFailure
  /\ ~options.sections.defined
  /\ Len(criteria.sections) = 2
  /\ Len(DocCriterionIds) = 2
  /\ Len(ReportedResults) = 1
  /\ ReportedResults[1].status = "error"
  /\ Len(calls) = 1

\* the logged throws of the collaborators called for criteria
CriterionThrows ==
  {j \in 1..Len(calls) : calls[j].call.owner = "criterion" /\ calls[j].outcome.kind = "throw"}

\* the screenshot of call j is the evidence capture that follows a successful
\* executor call for the same criterion
IsEvidenceCapture(j) ==
  /\ calls[j].call.kind = "shot"
  /\ \E i \in 1..(j - 1) :
       /\ calls[i].call = Call("exec", "criterion", calls[j].call.subject)
       /\ calls[i].outcome.kind = "success"

HasResult(id, status, message) ==
  \E k \in 1..Len(RecordedResults) :
    /\ RecordedResults[k].subject = id
    /\ RecordedResults[k].status = status
    /\ RecordedResults[k].message = message

\* C9 as stated: whenever the executor or the screenshot collaborator throws
\* during a check, that criterion's result has status error and carries the
\* exception message; with stopOnFailure = false the run checks every
\* remaining criterion and returns normally.
C9_EveryThrowBecomesError ==
  /\ \A j \in CriterionThrows :
       HasResult(calls[j].call.subject, "error", calls[j].outcome.message)
  /\ thrown = "none" \/ calls = <<>>
  /\ (rpc = "done" /\ ~options.stopOnFailure) =>
       [k \in 1..Len(ReportedResults) |-> ReportedResults[k].subject] = SelectedCriterionIds

\* C9 amended: executeCriterionCheck never throws. A throw of the executor, or
\* of the screenshot collaborator while a visual or screenshot-analysis check
\* takes its screenshot, gives that criterion status error carrying the
\* exception message; a throw of the screenshot collaborator while evidence is
\* captured after a successful executor call is swallowed and the criterion
\* keeps status pass without evidence. With stopOnFailure = false the run
\* checks every remaining criterion of the selected sections and returns
\* normally.
C9_ThrowsAreContained ==
  /\ \A j \in CriterionThrows :
       IF IsEvidenceCapture(j)
         THEN \E k \in 1..Len(RecordedResults) :
                /\ RecordedResults[k].subject = calls[j].call.subject
                /\ RecordedResults[k].status = "pass"
                /\ ~RecordedResults[k].evidence.defined
         ELSE HasResult(calls[j].call.subject, "error", calls[j].outcome.message)
  /\ thrown = "none" \/ calls = <<>>
  /\ rpc \notin {"done", "thrown"} => ENABLED NextRun
  /\ (rpc = "done" /\ ~options.stopOnFailure) =>
       /\ runRet.returned
       /\ [k \in 1..Len(ReportedResults) |-> ReportedResults[k].subject] = SelectedCriterionIds

\* the executor threw for the first criterion, the run went on and the second
\* criterion passed
C9_Witness ==
  /\ rpc = "done"
  /\ ~options.stopOnFailure
  /\ Len(ReportedResults) = 2
  /\ ReportedResults[1].status = "error"
  /\ ReportedResults[1].message = Words.failed
  /\ ReportedResults[2].status = "pass"
  /\ calls[1].outcome.kind = "throw"

\* nothing has been called or recorded when the error is thrown
C10_NothingBeforeThrow ==
  thrown # "none" =>
    /\ thrown = "DETOX_NOT_READY"
    /\ rpc = "thrown"
    /\ calls = <<>>
    /\ pending = NoCall
    /\ results = <<>>
    /\ sectionReports = <<>>
    /\ flowResults = <<>>
    /\ ~runRet.returned

\* the gate is decided on the readiness read when the run begins
C10_GateStep ==
  rpc = "call" => ((thrown' = "DETOX_NOT_READY") <=> ~detoxReady)

\* past the gate, readiness is not read again: nothing is thrown later
C10_NoLaterThrow ==
  rpc # "call" => thrown' = thrown

\* C10: runAcceptanceChecks throws exactly when the session is not ready as the
\* run begins, and then throws DETOX_NOT_READY before any executor or screenshot
\* call and before any result; readiness is read once, so a session that stops
\* being ready mid-run yields per-criterion results and no thrown error.
C10_ThrowsIffNotReadyAtStart ==
  /\ []C10_NothingBeforeThrow
  /\ [][C10_GateStep]_vars
  /\ [][C10_NoLaterThrow]_vars

\* the session stopped while a call was in flight; the next criterion's executor
\* call was refused, which became that criterion's error result, and the run
\* returned its report and threw nothing
C10_Witness ==
  /\ rpc = "done"
  /\ ~detoxReady
  /\ thrown = "none"
  /\ runRet.returned
  /\ Len(ReportedResults) = 2
  /\ ReportedResults[1].status = "pass"
  /\ ReportedResults[2].status = "error"
  /\ ReportedResults[2].message = MsgSessionNotReady


\* a collaborator call is issued in this step
C11_CallIssued == pending' # NoCall /\ pending' # pending

\* a call is issued only when none is in flight or the one in flight settles
\* in the same step
C11_OneInFlight ==
  C11_CallIssued =>
    \/ pending = NoCall
    \/ /\ Len(calls') = Len(calls) + 1
       /\ calls'[Len(calls')].call = pending

\* the settled calls and the call in flight follow the document: criteria by
\* increasing position, then the flows one after the other
C11_DocumentOrder ==
  /\ \A i, j \in 1..Len(calls) :
       i < j =>
         /\ calls[i].call.owner = "flow-step" => calls[j].call.owner = "flow-step"
         /\ (calls[i].call.owner = "criterion" /\ calls[j].call.owner = "criterion") =>
              /\ calls[i].call.subject <= calls[j].call.subject
              /\ (calls[i].call.kind = "exec" /\ calls[j].call.kind = "exec") =>
                   calls[i].call.subject < calls[j].call.subject
  /\ pending.owner = "criterion" =>
       /\ \A i \in 1..Len(calls) :
            /\ calls[i].call.owner = "criterion"
            /\ calls[i].call.subject <= pending.subject
            /\ pending.kind = "exec" => calls[i].call.subject < pending.subject
       /\ flowResults = <<>>
       /\ fpc = "idle"
  /\ pending.owner = "flow-step" =>
       /\ rpc = "in_flow"
       /\ flow = criteria.testFlows[flowIdx]
       /\ Len(flowResults) = flowIdx - 1
       /\ pending.subject = stepIdx
       /\ Len(stepResults) = stepIdx - 1

\* C11: within one runAcceptanceChecks at most one executor or screenshot call
\* is in flight at any time, and calls are issued in document order: criteria
\* in the order they appear, then the flows in order, each flow step only after
\* the previous step's call has resolved.
C11_SingleFlightInDocumentOrder ==
  /\ []C11_DocumentOrder
  /\ [][C11_OneInFlight]_vars

\* two criteria and then a flow step each had their executor call, one after
\* the other
C11_Witness ==
  /\ rpc = "done"
  /\ Len(calls) >= 4
  /\ \E i, j, k \in 1..Len(calls) :
       /\ i < j /\ j < k
       /\ calls[i].call = Call("exec", "criterion", 1)
       /\ calls[j].call = Call("exec", "criterion", 2)
       /\ calls[k].call = Call("exec", "flow-step", 1)

\* ------------------------------------ claims on executeCriterionCheck
\* the call has returned a result for a criterion whose mapped check is of one
\* of the given types
CheckReturnedFor(types) ==
  /\ cpc = "returned"
  /\ mapCriterionToCheck(chkCriterion).type \in types

\* the screenshot taken for the criterion was captured
ScreenshotCaptured ==
  \E k \in 1..Len(calls) :
    /\ calls[k].call = Call("shot", "criterion", chkCriterion.id)
    /\ calls[k].outcome.kind = "success"

EvidenceHasScreenshot(r) ==
  /\ r.evidence.defined
  /\ \E k \in 1..Len(r.evidence.screenshots) : r.evidence.screenshots[k] = chkCriterion.id

\* C12 as stated: for a criterion whose mapped check is visual or
\* screenshot-analysis, executeCriterionCheck resolves to skip whenever the
\* screenshot is captured, and the evidence of the result contains the screenshot.
C12_VisualSkipsWithEvidence ==
  (CheckReturnedFor({"visual", "screenshot_analysis"}) /\ ScreenshotCaptured) =>
    /\ chkRet.status = "skip"
    /\ EvidenceHasScreenshot(chkRet)

\* the one case without evidence: a visual check that extracts no colour,
\* called with captureEvidence false
C12_EvidenceDeclined ==
  /\ ~chkCapture
  /\ ~mapCriterionToCheck(chkCriterion).colorExtraction

\* C12 amended: for a criterion whose mapped check is visual or
\* screenshot-analysis, executeCriterionCheck resolves to skip whenever the
\* screenshot is captured; the evidence of the result contains the screenshot,
\* except that a visual check without colour extraction called with
\* captureEvidence false carries no evidence.
C12_VisualSkipsEvidenceUnlessDeclined ==
  (CheckReturnedFor({"visual", "screenshot_analysis"}) /\ ScreenshotCaptured) =>
    /\ chkRet.status = "skip"
    /\ IF C12_EvidenceDeclined
         THEN chkRet.evidence = NoEvidence
         ELSE EvidenceHasScreenshot(chkRet)

\* a colour check called with captureEvidence false returned skip with the
\* screenshot in its evidence
C12_Witness ==
  /\ CheckReturnedFor({"screenshot_analysis"})
  /\ ScreenshotCaptured
  /\ ~chkCapture
  /\ chkRet.status = "skip"
  /\ EvidenceHasScreenshot(chkRet)

\* C13: executeCriterionCheck on a criterion whose mapped check is manual
\* returns status skip carrying the reason stored by the mapper, and neither the
\* UI-action executor nor the screenshot collaborator is invoked.
C13_ManualSkipsWithStoredReason ==
  mapCriterionToCheck(chkCriterion).type = "manual" =>
    /\ pending = NoCall
    /\ calls = <<>>
    /\ cpc = "returned" =>
         /\ chkRet.status = "skip"
         /\ chkRet.message = mapCriterionToCheck(chkCriterion).manualReason
         /\ chkRet.message # <<>>

\* a colour criterion without a colour specification was skipped with the
\* reason of mapColorCheck and no collaborator call
C13_Witness ==
  /\ cpc = "returned"
  /\ chkCriterion.type = "element_color"
  /\ ~chkCriterion.colorHex
  /\ chkRet.status = "skip"
  /\ chkRet.message = mapCriterionToCheck(chkCriterion).manualReason
  /\ chkRet.message # Msg.ManualReason
  /\ calls = <<>>

SummaryAddsUp(summary, n) ==
  /\ summary.passed + summary.failed + summary.skipped + summary.blocked + summary.errors
       = summary.total
  /\ summary.total = n

\* the flow step results handed to generateReport
ReportedStepResults ==
  Flatten([f \in 1..Len(report.flowResults) |-> report.flowResults[f].stepResults])

\* the criterion results of the sections handed to generateReport
ReportedSectionResults ==
  Flatten([i \in 1..Len(report.sections) |-> report.sections[i].results])

\* C15: every ReportSummary, the summary of a section from calculateSummary,
\* the summary of the run from runAcceptanceChecks and the overall summary of
\* the report, satisfies passed + failed + skipped + blocked + errors = total,
\* and total is the number of results tallied.
C15_CountsAddUpToTotal ==
  /\ \A i \in 1..Len(sectionReports) :
       SummaryAddsUp(sectionReports[i].summary, Len(sectionReports[i].results))
  /\ runRet.returned => SummaryAddsUp(runRet.summary, Len(ReportedResults))
  /\ report.generated =>
       SummaryAddsUp(report.summary, Len(ReportedSectionResults) + Len(ReportedStepResults))

\* a report was generated for a run that tallied a blocked criterion and a flow
\* step besides
C15_Witness ==
  /\ report.generated
  /\ runRet.summary.blocked >= 1
  /\ runRet.summary.total >= 2
  /\ Len(ReportedStepResults) >= 1
  /\ report.summary.total > runRet.summary.total

RECURSIVE SumSeq(_)
SumSeq(ns) == IF ns = <<>> THEN 0 ELSE ns[1] + SumSeq(Tail(ns))

CountWith(rs, status) == Cardinality({k \in 1..Len(rs) : rs[k].status = status})

\* the field of a ReportSummary that counts a status
CountField(status) ==
  CASE status = "pass" -> "passed"
    [] status = "fail" -> "failed"
    [] status = "skip" -> "skipped"
    [] status = "blocked" -> "blocked"
    [] status = "error" -> "errors"

\* C16: the overall summary of a generated report equals, status by status, the
\* sum of the counts of the section summaries plus one count for each flow step
\* result, so its total is the number of criterion results plus the number of
\* flow step results.
C16_OverallIsSectionsPlusSteps ==
  report.generated =>
    /\ \A status \in Statuses :
         report.summary[CountField(status)]
           = SumSeq([i \in 1..Len(report.sections) |->
                       report.sections[i].summary[CountField(status)]])
             + CountWith(ReportedStepResults, status)
    /\ report.summary.total = Len(ReportedSectionResults) + Len(ReportedStepResults)

\* a report over two sections with a result each and a flow whose step failed
C16_Witness ==
  /\ report.generated
  /\ Len(report.sections) = 2
  /\ \A i \in 1..2 : report.sections[i].summary.total = 1
  /\ CountWith(ReportedStepResults, "fail") >= 1
  /\ report.summary.failed >= 1
  /\ report.summary.total >= 3

\* both rates, held in tenths of a percent, lie between 0 and 100 percent, and
\* are 0 when there is nothing to divide by
RatesInRange(summary) ==
  /\ summary.passRate \in 0..1000
  /\ summary.testableRate \in 0..1000
  /\ summary.total - summary.skipped = 0 => summary.passRate = 0
  /\ summary.total = 0 => summary.testableRate = 0

\* C17: in every summary passRate and testableRate lie in [0,100]; with
\* testable = total - skipped, passRate is 0 whenever testable is 0, in the empty
\* run and in the all-skipped run too, and testableRate is 0 whenever total is 0.
C17_RatesWithinBounds ==
  /\ \A i \in 1..Len(sectionReports) : RatesInRange(sectionReports[i].summary)
  /\ runRet.returned => RatesInRange(runRet.summary)
  /\ report.generated => RatesInRange(report.summary)

\* a run whose criteria were all skipped, so its passRate is 0 with a total
\* above 0, and whose report counts a passed flow step besides, which makes
\* its testableRate a fraction
C17_Witness ==
  /\ report.generated
  /\ runRet.summary.total >= 1
  /\ runRet.summary.total = runRet.summary.skipped
  /\ runRet.summary.passRate = 0
  /\ runRet.summary.testableRate = 0
  /\ report.summary.passRate = 1000
  /\ report.summary.testableRate > 0
  /\ report.summary.testableRate < 1000

\* ----------------------------- claims on deduplicateMissingRequirements
SamePair(a, b) == a.type = b.type /\ a.suggestedValue = b.suggestedValue

\* the positions of the list whose pair of type and suggested value did not
\* occur before
FirstOccurrences(reqs) ==
  {k \in 1..Len(reqs) : \A j \in 1..(k - 1) : ~SamePair(reqs[j], reqs[k])}

\* C18: for any input list deduplicateMissingRequirements returns a list in
\* which no two items share the pair of kind and suggested value, which holds
\* for every pair of the input exactly the first input item with that pair, in
\* the order of the first occurrences; two requirements of different criteria
\* that share the pair give exactly one row.
C18_KeepsFirstOfEachPair ==
  report.generated =>
    LET reqs == runRet.allMissingRequirements
        out == report.missingRequirements
    IN /\ \A i, j \in 1..Len(out) : i # j => ~SamePair(out[i], out[j])
       /\ Len(out) = Cardinality(FirstOccurrences(reqs))
       /\ \A k \in FirstOccurrences(reqs) :
            out[Cardinality({j \in FirstOccurrences(reqs) : j <= k})] = reqs[k]

\* the first and the third requirement, of different criteria, share their
\* pair and the second does not: the report keeps the first and the second
C18_Witness ==
  /\ report.generated
  /\ Len(runRet.allMissingRequirements) = 3
  /\ SamePair(runRet.allMissingRequirements[1], runRet.allMissingRequirements[3])
  /\ runRet.allMissingRequirements[1].criterionId # runRet.allMissingRequirements[3].criterionId
  /\ ~SamePair(runRet.allMissingRequirements[1], runRet.allMissingRequirements[2])
  /\ report.missingRequirements
       = SubSeq(runRet.allMissingRequirements, 1, 2)

\* C19: deduplicateMissingRequirements is idempotent: applied to its own
\* output it gives the same list, same items in the same order, as applied
\* once to the input.
C19_DeduplicationIsIdempotent ==
  report.generated =>
    deduplicateMissingRequirements(report.missingRequirements) = report.missingRequirements

\* a list with a repeated pair was shortened, and its output has two rows left
\* to run through again
C19_Witness ==
  /\ report.generated
  /\ Len(report.missingRequirements) = 2
  /\ Len(runRet.allMissingRequirements) = 3
  /\ SamePair(runRet.allMissingRequirements[1], runRet.allMissingRequirements[2])

\* the criteria of a parsed document, in document order of their sections
ParsedCriteria(secs) == Flatten([s \in 1..Len(secs) |-> allCriteria(secs[s])])

IdsPairwiseDistinct(cs) == \A i, j \in 1..Len(cs) : i # j => cs[i].id # cs[j].id

SameIdsAndTypes(cs, ds) ==
  /\ Len(cs) = Len(ds)
  /\ \A k \in 1..Len(cs) : cs[k].id = ds[k].id /\ cs[k].type = ds[k].type

\* C20: within one parsed document all criterion ids are pairwise distinct,
\* also for criteria of the same section, subsection and description; and a
\* second parse of the same input gives, criterion by criterion, the same ids
\* and the same classified types as the first.
C20_IdsDistinctAndStable ==
  ppc = "done" =>
    /\ IdsPairwiseDistinct(ParsedCriteria(sections))
    /\ parsedBefore.defined =>
         SameIdsAndTypes(ParsedCriteria(sections), ParsedCriteria(parsedBefore.sections))

\* the same input was parsed twice, and it holds two criteria of the same
\* section, subsection and description
C20_Witness ==
  /\ ppc = "done"
  /\ parsedBefore.defined
  /\ \E i, j \in 1..Len(ParsedCriteria(sections)) :
       LET cs == ParsedCriteria(sections) IN
       /\ i # j
       /\ cs[i].section = cs[j].section
       /\ cs[i].subsection = cs[j].subsection
       /\ cs[i].subsection # <<>>
       /\ cs[i].description = cs[j].description
       /\ cs[i].id # cs[j].id

\* the places of a parsed document that hold a criterion: (section, 0, k)
\* for the k-th criterion of the section itself and (section, subsection, k)
\* for the k-th criterion of a subsection
CriterionPlaces(secs) ==
  {p \in (1..Len(secs)) \X (0..MaxLines) \X (1..MaxLines) :
     IF p[2] = 0
       THEN p[3] <= Len(secs[p[1]].criteria)
       ELSE /\ p[2] <= Len(secs[p[1]].subsections)
            /\ p[3] <= Len(secs[p[1]].subsections[p[2]].criteria)}

\* C21: the totalCriteria returned by parseCriteriaContent is the number of
\* criteria attached directly to the returned sections plus the number
\* attached to their subsections.
C21_TotalIsSectionPlusSubsectionCriteria ==
  parsed.defined => parsed.totalCriteria = Cardinality(CriterionPlaces(parsed.sections))

\* a document returned with a criterion of a section itself and one of a
\* subsection
C21_Witness ==
  /\ parsed.defined
  /\ parsed.totalCriteria >= 2
  /\ \E s \in 1..Len(parsed.sections) :
       /\ parsed.sections[s].criteria # <<>>
       /\ \E u \in 1..Len(parsed.sections[s].subsections) :
            parsed.sections[s].subsections[u].criteria # <<>>

\* the heading that opens the Test Flows block line i lies in: the nearest
\* H2 above it, if that heading is a Test Flows heading; 0 if there is none
BlockOf(ls, i) ==
  LET above == {j \in 1..(i - 1) : ls[j].kind = "h2"}
      last == IF above = {} THEN 0 ELSE CHOOSE j \in above : \A k \in above : k <= j
  IN IF /\ last > 0
        /\ ls[i].kind # "h2"
        /\ StartsWith(ToLowerCase(ls[last].name),
                      <<"t", "e", "s", "t", " ", "f", "l", "o", "w", "s">>)
       THEN last ELSE 0

\* the flow headers inside a block, in document order
FlowHeaderLines(ls) ==
  SelectSeq([k \in 1..Len(ls) |-> k],
            LAMBDA i : ls[i].kind = "h3" /\ IsFlowTitle(ls[i].name) /\ BlockOf(ls, i) > 0)

\* the numbered lines of the header's block that come after header h and
\* before the block's next flow header
StepLinesOf(ls, h) ==
  SelectSeq([k \in 1..Len(ls) |-> k],
            LAMBDA i : /\ i > h
                       /\ ls[i].kind = "numbered"
                       /\ BlockOf(ls, i) = BlockOf(ls, h)
                       /\ ~\E g \in (h + 1)..(i - 1) :
                             ls[g].kind = "h3" /\ IsFlowTitle(ls[g].name))

ExpectedFlows(ls) ==
  LET hs == FlowHeaderLines(ls)
  IN [f \in 1..Len(hs) |-> [lineNumber |-> hs[f], steps |-> StepLinesOf(ls, hs[f])]]

ReturnedFlows(flows) ==
  [f \in 1..Len(flows) |->
     [lineNumber |-> flows[f].lineNumber,
      steps |-> [k \in 1..Len(flows[f].steps) |-> flows[f].steps[k].lineNumber]]]

\* C22: extractTestFlows returns one flow per flow header found inside a
\* Test Flows block, in document order; every numbered line of the block
\* after a flow header is exactly one step of the most recently opened flow,
\* in order; the block ends at the next H2, and numbered lines outside the
\* block or before the block's first flow header give no step.
C22_FlowsAndStepsFollowTheBlock ==
  parsed.defined => ReturnedFlows(parsed.testFlows) = ExpectedFlows(lines)

\* the factor, in tenths, the claim gives for a check built from a selector
ClaimedFactor(type) ==
  CASE type = "element_visible" -> 10
    [] type = "element_text" -> 10
    [] type = "interaction" -> 9
    [] type = "modal" -> 8
    [] type = "navigation" -> 7
    [] type = "scroll" -> 6

SelectorTypes ==
  {"element_visible", "element_text", "interaction", "modal", "navigation", "scroll"}

\* the parts of the claim that do not depend on the selector
C23_FixedConfidences ==
  /\ (mapIn.type = "element_text" /\ mapSelector.by = "none" /\ mapIn.expectedText)
       => mapCheck.confidence = 500
  /\ (mapIn.type = "element_color" /\ mapIn.colorHex)
       => mapCheck = [type |-> "screenshot_analysis", confidence |-> 600]
  /\ mapCheck.type = "screenshot_analysis" => mapCheck.confidence = 600
  /\ mapIn.type = "layout" => mapCheck = [type |-> "visual", confidence |-> 500]
  /\ mapIn.type \in {"flow_step", "prerequisite", "manual"} => mapCheck.type = "manual"

\* C23 as stated: a criterion with an inferred selector of confidence c is
\* mapped to a check of confidence c for visibility and text, 0.9 c for
\* interaction, 0.8 c for modal, 0.7 c for navigation and 0.6 c for scroll;
\* a text check from expected text alone has 0.5, a colour check 0.6 with
\* type screenshot_analysis, a layout check 0.5 with type visual, and an
\* unrecognised type is mapped to manual.
C23_ConfidenceFollowsSelector ==
  mpc = "mapped" =>
    /\ (mapIn.type \in SelectorTypes /\ mapSelector.by # "none")
         => 10 * mapCheck.confidence = ClaimedFactor(mapIn.type) * mapSelector.confidence
    /\ C23_FixedConfidences

\* C23: as above, except that a scroll criterion whose description mentions
\* smooth, responsive or works is mapped to manual with confidence 0 whether
\* or not a selector was inferred.
C23_ConfidenceFollowsSelectorUnlessSmoothScroll ==
  mpc = "mapped" =>
    /\ (mapIn.type \in SelectorTypes /\ mapSelector.by # "none")
         => IF mapIn.type = "scroll" /\ mapIn.smooth
              THEN mapCheck = [type |-> "manual", confidence |-> 0]
              ELSE 10 * mapCheck.confidence
                     = ClaimedFactor(mapIn.type) * mapSelector.confidence
    /\ C23_FixedConfidences

\* a scroll criterion naming the logo, nothing said of smoothness: the check
\* has six tenths of the selector's 0.4
C23_Witness ==
  /\ mpc = "mapped"
  /\ mapIn.type = "scroll"
  /\ ~mapIn.smooth
  /\ mapIn.matches = {"logo"}
  /\ mapSelector.confidence = 400
  /\ mapCheck = [type |-> "detox", confidence |-> 240]

\* a manual check returned because an input the mapper needs is absent: the
\* selector, the colour, or both selector and expected text
FallbackForAbsentInput ==
  /\ mpc = "mapped"
  /\ mapCheck.type = "manual"
  /\ \/ mapIn.type \in {"element_visible", "interaction", "navigation"} /\ mapSelector.by = "none"
     \/ mapIn.type \in {"modal", "scroll"} /\ mapSelector.by = "none"
     \/ mapIn.type = "element_text" /\ mapSelector.by = "none" /\ ~mapIn.expectedText
     \/ mapIn.type = "element_color" /\ ~mapIn.colorHex

\* C24: every confidence of the pipeline lies in [0,1], that of each inferred
\* selector and that of each mapped check, whatever the criterion's type; and
\* a manual fallback returned for an absent input has confidence 0.
C24_ConfidencesWithinUnitInterval ==
  /\ mapSelector.confidence \in 0..1000
  /\ mapCheck.confidence \in 0..1000
  /\ FallbackForAbsentInput => mapCheck.confidence = 0

\* a visibility check built on an explicit testID: selector and check both
\* carry the largest confidence there is
C24_Witness ==
  /\ mpc = "mapped"
  /\ mapIn.type = "element_visible"
  /\ mapSelector = [by |-> "id", confidence |-> 1000]
  /\ mapCheck = [type |-> "detox", confidence |-> 1000]

\* the rule order the claim fixes: colour, interaction, modal, navigation,
\* scroll, state change, text, layout, visibility
ClaimedOrder ==
  <<"element_color", "interaction", "modal", "navigation", "scroll", "state_change",
    "element_text", "layout", "element_visible">>

MatchingRules(description) ==
  {k \in 1..Len(ClaimedOrder) : ruleMatches(description, ClaimedOrder[k])}

\* C25: classifyCriterionType returns the type of the first rule, in the
\* claimed order, whose condition holds of the description, and manual if
\* and only if none does; of several matching rules the earliest wins.
C25_FirstMatchingRuleWins ==
  kpc = "classified" =>
    LET hit == MatchingRules(clsDescription)
    IN /\ clsType = "manual" <=> hit = {}
       /\ hit # {} => \E k \in hit : clsType = ClaimedOrder[k] /\ \A j \in hit : k <= j

\* a description such as "tapping padding visible": the interaction, the
\* layout and the visibility rule match, and the type is interaction
C25_Witness ==
  /\ kpc = "classified"
  /\ MatchingRules(clsDescription) = {2, 8, 9}
  /\ clsType = "interaction"

\* the step kinds the claim lists as having no executable payload
C26_NoPayload(step) ==
  \/ step.action \in {"navigate", "login", "observe", "undefined"}
  \/ step.action \in {"tap", "verify", "swipe", "type"} /\ ~step.hasSelector
  \/ step.action = "type" /\ ~step.hasQuoted
  \/ step.action = "wait" /\ ~step.hasDuration

C26_State ==
  /\ \A n \in 1..Len(flow.steps) :
       C26_NoPayload(flow.steps[n]) =>
         /\ \A k \in 1..Len(ExecCalls) : ExecCalls[k].call.subject # n
         /\ ~(pending.kind = "exec" /\ pending.owner = "flow-step" /\ pending.subject = n)
  /\ \A r \in 1..Len(stepResults) :
       C26_NoPayload(flow.steps[stepResults[r].subject]) =>
         /\ stepResults[r].status = "skip"
         /\ flowStop =>
              /\ r = Len(stepResults)
              /\ fpc \in {"break", "returned"}
              /\ blocked
              /\ blockedReason.defined
              /\ blockedReason.step = flow.steps[stepResults[r].subject].stepNumber
              /\ fpc = "returned" => flowRet.blockedReason = blockedReason
         /\ (~flowStop /\ r = Len(stepResults) /\ fpc # "returned") =>
              /\ fpc # "break"
              /\ stepIdx = stepResults[r].subject + 1
         /\ (~flowStop /\ fpc = "returned" /\ stepResults[r].subject < Len(flow.steps)) =>
              /\ r < Len(stepResults)
              /\ stepResults[r + 1].subject = stepResults[r].subject + 1

C26_RecordingStep ==
  (/\ fpc = "loop"
   /\ stepIdx <= Len(flow.steps)
   /\ C26_NoPayload(flow.steps[stepIdx])) =>
    /\ Len(stepResults') = Len(stepResults) + 1
    /\ stepResults'[Len(stepResults')].subject = stepIdx
    /\ stepResults'[Len(stepResults')].status = "skip"
    /\ completedSteps' = completedSteps
    /\ calls' = calls
    /\ pending' = pending

\* C26: a step for which mapFlowStep yields no executable payload is recorded
\* with status skip, the executor is not invoked for it and completedSteps is
\* not incremented; with stopOnFailure the loop ends at that step and the flow
\* is blocked with a blockedReason naming it, otherwise the next step is the
\* one attempted.
C26_UnmappedStepIsSkipped == [](C26_State) /\ [][C26_RecordingStep]_vars

C26_Witness ==
  /\ fpc = "returned"
  /\ ~flowStop
  /\ Len(flow.steps) = 2
  /\ flow.steps[1].action = "type" /\ flow.steps[1].hasSelector
  /\ Len(flowRet.stepResults) = 2
  /\ flowRet.stepResults[1].status = "skip"
  /\ flowRet.stepResults[2].status = "pass"
  /\ flowRet.completedSteps = 1
  /\ Len(ExecCalls) = 1

C27_KeptFields ==
  {"title", "timestamp", "duration", "summary", "sections", "flowResults",
   "missingRequirements", "metadata"}

\* C27: saveReport changes nothing in the report it is given except the
\* artifact paths: title, timestamp, duration, summary, sections, flowResults,
\* missingRequirements and metadata are the same after every step of the call.
C27_SaveKeepsReportContent ==
  [][\A f \in C27_KeptFields : savedReport'[f] = savedReport[f]]_vars

C27_Witness ==
  /\ spc = "resolved"
  /\ savedReport.artifacts.reportPath = saveRet.markdownPath
  /\ savedReport.artifacts.jsonPath = saveRet.jsonPath
  /\ savedReport.artifacts.screenshotsDir = ScreenshotsDir
  /\ saveRet.markdownPath.name = "nightly"
  /\ Len(written) = 2
  /\ savedReport.title # <<>>
  /\ savedReport.sections # <<>>
  /\ savedReport.missingRequirements # <<>>

\* the withLock calls whose fn is executing
Running == {c \in DOMAIN callers : callers[c].state = "running"}

C28_Arrival ==
  \A c \in DOMAIN callers :
    (Running # {} /\ callers[c].state = "idle" /\ callers'[c].state # "idle") =>
      callers'[c].state \in {"sleeping", "locked_error"}

\* C28: for any interleaving of withLock calls on one resource, with or
\* without timeoutMs and waitForLock, at most one caller's fn is executing at
\* any time, and a call arriving while another operation on the resource is
\* running waits or throws "Resource is locked" without running its fn.
C28_AtMostOneOperationRuns ==
  [](Cardinality(Running) <= 1) /\ [][C28_Arrival]_vars

C29_State ==
  /\ \A l \in locks : callers[l.holder].state = "running"
  /\ (Running = {}) =>
       acquire(locks, Resource, "boot", 1, 0, now).acquired

C29_Settle ==
  \A c \in DOMAIN callers :
    (callers[c].state = "running" /\ callers'[c].state # "running") =>
      /\ callers'[c].state \in {"resolved", "rejected"}
      /\ \A l \in locks' : l.resource # Resource
      /\ acquire(locks', Resource, "boot", c, 0, now').acquired

\* C29: a withLock call that acquired the lock releases it when fn resolves
\* and when fn rejects, the rejection passing to the caller: right after the
\* call settles the resource is free, so an acquire succeeds, and no lock in
\* the map belongs to a call that has settled.
C29_LockReleasedWhenFnSettles == [](C29_State) /\ [][C29_Settle]_vars

C29_Witness ==
  /\ callers[1].state = "rejected"
  /\ callers[2].state = "running"
  /\ callers[2].waitForLock
  /\ \E l \in locks : l.holder = 2 /\ l.acquiredAt > 0

C30_State ==
  /\ (rpc = "in_flow" \/ flowResults # <<>> \/ ExecCalls # <<>>
        \/ pending.owner = "flow-step") =>
       ~options.skipFlows /\ ~options.stopOnFailure
  /\ options.stopOnFailure =>
       /\ flowResults = <<>>
       /\ ExecCalls = <<>>
       /\ runRet.returned => runRet.flowResults = <<>>
  /\ rpc = "in_flow" => flowStop
  /\ (runRet.returned /\ ~options.skipFlows /\ ~options.stopOnFailure) =>
       Len(runRet.flowResults) = Len(criteria.testFlows)

\* C30: runAcceptanceChecks executes test flows only when skipFlows and
\* stopOnFailure are both false: with stopOnFailure set no flow step reaches
\* the executor and flowResults stays empty, also when every criterion passed;
\* a flow that runs is run with stopOnFailure enabled whatever the caller asked.
C30_FlowsOnlyWithoutStopOnFailure == [](C30_State)

C30_Witness ==
  /\ runRet.returned
  /\ options.stopOnFailure
  /\ ~options.skipFlows
  /\ criteria.testFlows # <<>>
  /\ runRet.summary.total > 0
  /\ runRet.summary.passed = runRet.summary.total
  /\ runRet.flowResults = <<>>

====
